---- MODULE Spec2Model ----
(***************************************************************************)
(* A model of psychrolib.py (PsychroLib 2.0.0): the process-wide unit      *)
(* system and tolerance, and the formula functions that read them.         *)
(*                                                                         *)
(* Python floats are modelled as decimal floating-point numbers            *)
(* [m |-> mantissa, e |-> exponent] of value m * 10^e, the mantissa kept   *)
(* to eight significant digits (0, or 10^7 <= |m| < 10^8), every operation *)
(* truncating its result to that precision.                                *)
(*                                                                         *)
(* A call of one function by another is written Call(name, arguments):     *)
(* the arguments are evaluated, then the function of that name is applied  *)
(* to their values, as in Python.                                          *)
(***************************************************************************)
EXTENDS Integers, Sequences, FiniteSets, TLC

----------------------------------------------------------------------------
(* The globals of the module, and the call the caller is looking at.       *)

VARIABLES
  UNITS,      \* __UNITS: None, or the unit system selected
  TOL,        \* __TOL: the tolerance of the iterative solvers
  lastValid,  \* history: the argument of the latest successful SetUnitSystem
  call,       \* the call the caller is looking at: operation, arguments, outcome
  frame,      \* the solver call that is inside its while loop: its local variables
  passes,     \* the passes that loop has completed without being left
  setter      \* the SetUnitSystem call another thread is inside: its position

vars == <<UNITS, TOL, lastValid, call, frame, passes, setter>>

----------------------------------------------------------------------------
(* Decimal floating point: the arithmetic of Python's float.               *)

Pow10(k) == <<1, 10, 100, 1000, 10000, 100000, 1000000, 10000000,
              100000000, 1000000000>>[k + 1]

MantMin == 10000000

MantMax == 100000000

HalfBase == 10000

Abs(i) == IF i < 0 THEN -i ELSE i

Sgn(i) == IF i < 0 THEN -1 ELSE IF i > 0 THEN 1 ELSE 0

\* Integer division truncating toward zero.
TDiv(i, n) == IF i < 0 THEN -((-i) \div n) ELSE i \div n

\* The number of decimal digits of a positive integer below 2^31.
NumDigits(a) ==
  IF a < 100000
  THEN IF a < 10 THEN 1 ELSE IF a < 100 THEN 2 ELSE IF a < 1000 THEN 3
       ELSE IF a < 10000 THEN 4 ELSE 5
  ELSE IF a < 1000000 THEN 6 ELSE IF a < 10000000 THEN 7
       ELSE IF a < 100000000 THEN 8 ELSE IF a < 1000000000 THEN 9 ELSE 10

Zero == [m |-> 0, e |-> 0]

One == [m |-> 10000000, e |-> -7]

Two == [m |-> 20000000, e |-> -7]

\* The float of value m * 10^e, its mantissa brought to eight digits.
Normalize(m, e) ==
  IF m = 0 THEN Zero
  ELSE LET d == NumDigits(Abs(m))
       IN IF d > 8
          THEN [m |-> TDiv(m, Pow10(d - 8)), e |-> e + (d - 8)]
          ELSE [m |-> m * Pow10(8 - d), e |-> e - (8 - d)]

FNeg(a) == [m |-> -a.m, e |-> a.e]

FAbs(a) == [m |-> Abs(a.m), e |-> a.e]

\* a + b, with one guard digit.
FloatAdd(a, b) ==
  IF a.m = 0 THEN b
  ELSE IF b.m = 0 THEN a
  ELSE LET hi == IF a.e >= b.e THEN a ELSE b
           lo == IF a.e >= b.e THEN b ELSE a
           d  == hi.e - lo.e
       IN IF d > 9 THEN hi
          ELSE IF d = 0 THEN Normalize(hi.m + lo.m, hi.e)
          ELSE Normalize(hi.m * 10 + TDiv(lo.m, Pow10(d - 1)), hi.e - 1)

\* a * b: the top eight digits of the sixteen-digit product.
FloatMul(a, b) ==
  IF a.m = 0 \/ b.m = 0 THEN Zero
  ELSE LET A  == Abs(a.m)
           B  == Abs(b.m)
           ah == A \div HalfBase
           al == A % HalfBase
           bh == B \div HalfBase
           bl == B % HalfBase
           X  == ah * bl + al * bh
           lw == (X % HalfBase) * HalfBase + al * bl
           q  == ah * bh + (X \div HalfBase) + (lw \div MantMax)
           r  == lw % MantMax
           s  == Sgn(a.m) * Sgn(b.m)
       IN IF q >= MantMin
          THEN [m |-> s * q, e |-> a.e + b.e + 8]
          ELSE [m |-> s * (q * 10 + (r \div MantMin)), e |-> a.e + b.e + 7]

\* The first nine digits of A / B for 0 < A < 10 * B, by long division.
LongDiv(A, B) ==
  LET r0 == A % B
      r1 == (r0 * 10) % B
      r2 == (r1 * 10) % B
      r3 == (r2 * 10) % B
      r4 == (r3 * 10) % B
      r5 == (r4 * 10) % B
      r6 == (r5 * 10) % B
      r7 == (r6 * 10) % B
  IN <<r0, r1, r2, r3, r4, r5, r6, r7,
            (A \div B) * 100000000
            + ((r0 * 10) \div B) * 10000000 + ((r1 * 10) \div B) * 1000000
            + ((r2 * 10) \div B) * 100000 + ((r3 * 10) \div B) * 10000
            + ((r4 * 10) \div B) * 1000 + ((r5 * 10) \div B) * 100
            + ((r6 * 10) \div B) * 10 + ((r7 * 10) \div B)>>[9]

\* a / b for b # 0 (the callers raise ZeroDivisionError themselves).
FloatDiv(a, b) ==
  IF a.m = 0 THEN Zero
  ELSE Normalize(Sgn(a.m) * Sgn(b.m) * LongDiv(Abs(a.m), Abs(b.m)), a.e - b.e - 8)

\* The sign of a - b: -1, 0 or 1.
FloatCmp(a, b) == Sgn(FloatAdd(a, FNeg(b)).m)

\* The integer floor of a float of small magnitude.
FloorInt(a) ==
  IF a.e >= 0 THEN a.m * Pow10(a.e)
  ELSE IF -a.e > 9 THEN (IF a.m < 0 THEN -1 ELSE 0)
  ELSE a.m \div Pow10(-a.e)

Ln10 == [m |-> 23025851, e |-> -7]

Sqrt10 == [m |-> 31622777, e |-> -7]

Root4Of10 == [m |-> 17782794, e |-> -7]

RECURSIVE Dispatch(_, _)

\* The call fn(a0[1], ..., a0[n]): the arguments are evaluated, then the
\* function named fn is applied to their values.
Call(fn, a0) == CHOOSE r \in {Dispatch(fn, a) : a \in {a0}} : TRUE

\* The float of the decimal literal m * 10^e.
Dec(m, e) == Call("Normalize", <<m, e>>)

\* float(i) for an integer i.
FInt(i) == Call("Normalize", <<i, 0>>)

FAdd(a, b) == Call("FloatAdd", <<a, b>>)

FSub(a, b) == Call("FloatAdd", <<a, FNeg(b)>>)

FMul(a, b) == Call("FloatMul", <<a, b>>)

FDiv(a, b) == Call("FloatDiv", <<a, b>>)

FLt(a, b) == Call("FloatCmp", <<a, b>>) < 0

FLe(a, b) == Call("FloatCmp", <<a, b>>) <= 0

FGt(a, b) == Call("FloatCmp", <<a, b>>) > 0

FGe(a, b) == Call("FloatCmp", <<a, b>>) >= 0

FMax(a, b) == Call("FloatMax", <<a, b>>)

FMin(a, b) == Call("FloatMin", <<a, b>>)

FLog(x) == Call("FloatLog", <<x>>)

FExp(y) == Call("FloatExp", <<y>>)

\* max(a, b) and min(a, b) as Python evaluates them: b when it is beyond a.
FloatMax(a, b) == IF FloatCmp(b, a) > 0 THEN b ELSE a

FloatMin(a, b) == IF FloatCmp(b, a) < 0 THEN b ELSE a

\* 1 + w/3 + w^2/5 + ... + w^7/15, by Horner's rule.
AtanhSeries(w) ==
  LET h7 == FDiv(One, Dec(15, 0))
      h6 == FAdd(FDiv(One, Dec(13, 0)), FMul(w, h7))
      h5 == FAdd(FDiv(One, Dec(11, 0)), FMul(w, h6))
      h4 == FAdd(FDiv(One, Dec(9, 0)), FMul(w, h5))
      h3 == FAdd(FDiv(One, Dec(7, 0)), FMul(w, h4))
      h2 == FAdd(FDiv(One, Dec(5, 0)), FMul(w, h3))
      h1 == FAdd(FDiv(One, Dec(3, 0)), FMul(w, h2))
      h0 == FAdd(One, FMul(w, h1))
  IN <<h7, h6, h5, h4, h3, h2, h1, h0>>[8]

\* math.log(x) for x > 0.  x = f * 10^k with f in [1, 10); f is divided by
\* the square root and then by the fourth root of 10 when it reaches them,
\* which leaves ln x = q/4 ln 10 + ln f with f in [1, 10^(1/4)), and
\* ln f = 2 atanh z for z = (f - 1) / (f + 1).
FloatLog(x) ==
  LET f0 == [m |-> x.m, e |-> -7]
      a  == FGe(f0, Sqrt10)
      f1 == IF a THEN FDiv(f0, Sqrt10) ELSE f0
      b  == FGe(f1, Root4Of10)
      f2 == IF b THEN FDiv(f1, Root4Of10) ELSE f1
      q  == 4 * (x.e + 7) + (IF a THEN 2 ELSE 0) + (IF b THEN 1 ELSE 0)
      z  == FDiv(FSub(f2, One), FAdd(f2, One))
      w  == FMul(z, z)
      t  == Call("AtanhSeries", <<w>>)
      u  == FMul(Two, FMul(z, t))
      v  == FDiv(FMul(FInt(q), Ln10), Dec(4, 0))
  IN <<f1, f2, z, w, t, u, v, FAdd(v, u)>>[8]

Square(a) == FMul(a, a)

\* 1 + u/1 * (1 + u/2 * (... (1 + u/10))), the Taylor series of exp to
\* ten terms, by Horner's rule.
ExpSeries(u) ==
  LET e10 == FAdd(One, FDiv(u, Dec(10, 0)))
      e9  == FAdd(One, FMul(FDiv(u, Dec(9, 0)), e10))
      e8  == FAdd(One, FMul(FDiv(u, Dec(8, 0)), e9))
      e7  == FAdd(One, FMul(FDiv(u, Dec(7, 0)), e8))
      e6  == FAdd(One, FMul(FDiv(u, Dec(6, 0)), e7))
      e5  == FAdd(One, FMul(FDiv(u, Dec(5, 0)), e6))
      e4  == FAdd(One, FMul(FDiv(u, Dec(4, 0)), e5))
      e3  == FAdd(One, FMul(FDiv(u, Dec(3, 0)), e4))
      e2  == FAdd(One, FMul(FDiv(u, Two), e3))
      e1  == FAdd(One, FMul(u, e2))
  IN <<e10, e9, e8, e7, e6, e5, e4, e3, e2, e1>>[10]

\* math.exp(y).  For k = floor(y / ln 10), y = k ln 10 + r with r in
\* [0, ln 10), and exp(y) = exp(r / 8)^8 * 10^k.
FloatExp(y) ==
  LET k  == FloorInt(FloatDiv(y, Ln10))
      u  == FDiv(FSub(y, FMul(FInt(k), Ln10)), Dec(8, 0))
      t1 == Call("ExpSeries", <<u>>)
      t2 == Call("Square", <<t1>>)
      t4 == Call("Square", <<t2>>)
      t8 == Call("Square", <<t4>>)
  IN <<u, t1, t2, t4, t8, [m |-> t8.m, e |-> t8.e + k]>>[6]

----------------------------------------------------------------------------
(* What a call returns.                                                    *)

None == "None"

IP == "UnitSystem.IP"

SI == "UnitSystem.SI"

\* class UnitSystem(Enum): its two members.
UnitSystem == {IP, SI}

ValueError == "ValueError"

ZeroDivisionError == "ZeroDivisionError"

\* None as the result of a call: what a function returns that ends without
\* a return statement.
NoneResult == [none |-> TRUE]

\* A call that returned v.
Ok(v) == [ok |-> TRUE, val |-> v, exc |-> "none", msg |-> "none"]

\* A call that raised exception exc with message msg.
Raise(exc, msg) == [ok |-> FALSE, val |-> "none", exc |-> exc, msg |-> msg]

MsgBadUnits == "The system of units has to be either SI or IP."

MsgNoUnits == "The system of units has not been defined."

MsgDewAboveDry == "Dew point temperature is above dry bulb temperature"

MsgWetAboveDry == "Wet bulb temperature is above dry bulb temperature"

MsgRelHumRange == "Relative humidity is outside range [0, 1]"

MsgVapPresNeg == "Partial pressure of water vapor in moist air cannot be negative"

MsgVapPresRange == "Partial pressure of water vapor is outside range of validity of equations"

MsgHumRatioNeg1 == "Humidity ratio cannot be negative"

MsgHumRatioNeg2 == "Humidity ratio is negative"

MsgTempRangeIP == "Dry bulb temperature must be in range [-148, 392] F"

MsgTempRangeSI == "Dry bulb temperature must be in range [-100, 200] C"

MsgMathDomain == "math domain error"

MsgDivZero == "float division by zero"

\* a / b as Python evaluates it: ZeroDivisionError when b is 0.
PyDiv(a, b) == IF b.m = 0 THEN Raise(ZeroDivisionError, MsgDivZero) ELSE Ok(FDiv(a, b))

\* math.log(x): ValueError when x <= 0.
PyLog(x) == IF x.m <= 0 THEN Raise(ValueError, MsgMathDomain) ELSE Ok(FLog(x))

----------------------------------------------------------------------------
(* Helper functions.                                                       *)

\* The tolerances of the two unit systems exchanged.
TolOfExchanged(Units) ==
  IF Units = IP THEN Dec(1, -3)
  ELSE FDiv(FMul(Dec(1, -3), Dec(9, 0)), Dec(5, 0))

\* The tolerance SetUnitSystem derives from the unit system.
TolOf(Units) == IF Units = IP THEN FDiv(FMul(Dec(1, -3), Dec(9, 0)), Dec(5, 0))
                ELSE Dec(1, -3)

\* SetUnitSystem storing its argument before it validates it.
SetUnitSystemStoresFirst(Units) ==
  [ret |-> IF Units \notin UnitSystem THEN Raise(ValueError, MsgBadUnits) ELSE Ok(NoneResult),
   units |-> Units, tol |-> TolOf(Units)]

\* SetUnitSystem(Units): the outcome, and the globals after the call.
SetUnitSystemDo(Units) ==
  IF Units \notin UnitSystem
  THEN [ret |-> Raise(ValueError, MsgBadUnits), units |-> UNITS, tol |-> TOL]
  ELSE [ret |-> Ok(NoneResult), units |-> Units, tol |-> TolOf(Units)]

GetUnitSystem == Ok(UNITS)

isIP ==
  IF UNITS = IP THEN Ok(TRUE)
  ELSE IF UNITS = SI THEN Ok(FALSE)
  ELSE Raise(ValueError, MsgNoUnits)

GetTRankineFromTFahrenheit(TFahrenheit) == FAdd(TFahrenheit, Dec(45967, -2))

GetTKelvinFromTCelsius(TCelsius) == FAdd(TCelsius, Dec(27315, -2))

----------------------------------------------------------------------------
(* Saturation vapor pressure.                                              *)

\* ln(Pws) over ice, IP: T in degree Rankine.
LnPwsIceIP(T) ==
  LET T2 == FMul(T, T)
      T3 == FMul(T2, T)
      T4 == FMul(T3, T)
      L  == FLog(T)
      s1 == FDiv(Dec(-10214165, -3), T)
      s2 == FSub(s1, Dec(48932428, -7))
      s3 == FSub(s2, FMul(Dec(53765794, -10), T))
      s4 == FAdd(s3, FMul(Dec(19202377, -14), T2))
      s5 == FAdd(s4, FMul(Dec(35575832, -17), T3))
      s6 == FSub(s5, FMul(Dec(90344688, -21), T4))
      s7 == FAdd(s6, FMul(Dec(41635019, -7), L))
  IN <<T2, T3, T4, L, s1, s2, s3, s4, s5, s6, s7>>[11]

\* ln(Pws) over liquid water, IP.
LnPwsWaterIP(T) ==
  LET T2 == FMul(T, T)
      T3 == FMul(T2, T)
      L  == FLog(T)
      s1 == FDiv(Dec(-10440397, -3), T)
      s2 == FSub(s1, Dec(11294650, -6))
      s3 == FSub(s2, FMul(Dec(27022355, -9), T))
      s4 == FAdd(s3, FMul(Dec(12890360, -12), T2))
      s5 == FSub(s4, FMul(Dec(24780681, -16), T3))
      s6 == FAdd(s5, FMul(Dec(65459673, -7), L))
  IN <<T2, T3, L, s1, s2, s3, s4, s5, s6>>[9]

\* ln(Pws) over ice, SI: T in Kelvin.
LnPwsIceSI(T) ==
  LET T2 == FMul(T, T)
      T3 == FMul(T2, T)
      T4 == FMul(T3, T)
      L  == FLog(T)
      s1 == FDiv(Dec(-56745359, -4), T)
      s2 == FAdd(s1, Dec(63925247, -7))
      s3 == FSub(s2, FMul(Dec(9677843, -9), T))
      s4 == FAdd(s3, FMul(Dec(62215701, -14), T2))
      s5 == FAdd(s4, FMul(Dec(20747825, -16), T3))
      s6 == FSub(s5, FMul(Dec(9484024, -19), T4))
      s7 == FAdd(s6, FMul(Dec(41635019, -7), L))
  IN <<T2, T3, T4, L, s1, s2, s3, s4, s5, s6, s7>>[11]

\* ln(Pws) over liquid water, SI.
LnPwsWaterSI(T) ==
  LET T2 == FMul(T, T)
      T3 == FMul(T2, T)
      L  == FLog(T)
      s1 == FDiv(Dec(-58002206, -4), T)
      s2 == FAdd(s1, Dec(13914993, -7))
      s3 == FSub(s2, FMul(Dec(48640239, -9), T))
      s4 == FAdd(s3, FMul(Dec(41764768, -12), T2))
      s5 == FSub(s4, FMul(Dec(14452093, -15), T3))
      s6 == FAdd(s5, FMul(Dec(65459673, -7), L))
  IN <<T2, T3, L, s1, s2, s3, s4, s5, s6>>[9]

\* GetSatVapPres using the coefficients over ice only below the freezing
\* point, not at it.
GetSatVapPresRunWaterAtFreezing(TDryBulb) ==
  LET ip == isIP
  IN IF ~ip.ok THEN [ret |-> ip, coef |-> "none"]
     ELSE IF ip.val
     THEN IF FLt(TDryBulb, Dec(-148, 0)) \/ FGt(TDryBulb, Dec(392, 0))
          THEN [ret |-> Raise(ValueError, MsgTempRangeIP), coef |-> "none"]
          ELSE LET T          == GetTRankineFromTFahrenheit(TDryBulb)
                   ice        == FLt(TDryBulb, Dec(32, 0))
                   LnPws      == IF ice THEN Call("LnPwsIceIP", <<T>>) ELSE Call("LnPwsWaterIP", <<T>>)
                   SatVapPres == FExp(LnPws)
               IN <<T, LnPws, SatVapPres,
                         [ret |-> Ok(SatVapPres), coef |-> IF ice THEN "ice" ELSE "water"]>>[4]
     ELSE IF FLt(TDryBulb, Dec(-100, 0)) \/ FGt(TDryBulb, Dec(200, 0))
          THEN [ret |-> Raise(ValueError, MsgTempRangeSI), coef |-> "none"]
          ELSE LET T          == GetTKelvinFromTCelsius(TDryBulb)
                   ice        == FLt(TDryBulb, Zero)
                   LnPws      == IF ice THEN Call("LnPwsIceSI", <<T>>) ELSE Call("LnPwsWaterSI", <<T>>)
                   SatVapPres == FExp(LnPws)
               IN <<T, LnPws, SatVapPres,
                         [ret |-> Ok(SatVapPres), coef |-> IF ice THEN "ice" ELSE "water"]>>[4]

\* GetSatVapPres: its outcome, and the coefficient set the evaluation used.
GetSatVapPresRun(TDryBulb) ==
  LET ip == isIP
  IN IF ~ip.ok THEN [ret |-> ip, coef |-> "none"]
     ELSE IF ip.val
     THEN IF FLt(TDryBulb, Dec(-148, 0)) \/ FGt(TDryBulb, Dec(392, 0))
          THEN [ret |-> Raise(ValueError, MsgTempRangeIP), coef |-> "none"]
          ELSE LET T          == GetTRankineFromTFahrenheit(TDryBulb)
                   ice        == FLe(TDryBulb, Dec(32, 0))
                   LnPws      == IF ice THEN Call("LnPwsIceIP", <<T>>) ELSE Call("LnPwsWaterIP", <<T>>)
                   SatVapPres == FExp(LnPws)
               IN <<T, LnPws, SatVapPres,
                         [ret |-> Ok(SatVapPres), coef |-> IF ice THEN "ice" ELSE "water"]>>[4]
     ELSE IF FLt(TDryBulb, Dec(-100, 0)) \/ FGt(TDryBulb, Dec(200, 0))
          THEN [ret |-> Raise(ValueError, MsgTempRangeSI), coef |-> "none"]
          ELSE LET T          == GetTKelvinFromTCelsius(TDryBulb)
                   ice        == FLe(TDryBulb, Zero)
                   LnPws      == IF ice THEN Call("LnPwsIceSI", <<T>>) ELSE Call("LnPwsWaterSI", <<T>>)
                   SatVapPres == FExp(LnPws)
               IN <<T, LnPws, SatVapPres,
                         [ret |-> Ok(SatVapPres), coef |-> IF ice THEN "ice" ELSE "water"]>>[4]

GetSatVapPres(TDryBulb) == GetSatVapPresRun(TDryBulb).ret

----------------------------------------------------------------------------
(* Conversions between dew point, or relative humidity and vapor pressure. *)

\* GetVapPresFromRelHum keeping its result above a small positive floor.
GetVapPresFromRelHumFloored(TDryBulb, RelHum) ==
  IF FLt(RelHum, Zero) \/ FGt(RelHum, One)
  THEN Raise(ValueError, MsgRelHumRange)
  ELSE LET s == Call("GetSatVapPres", <<TDryBulb>>)
       IN IF ~s.ok THEN s ELSE Ok(FMax(FMul(RelHum, s.val), Dec(1, -7)))

\* GetVapPresFromRelHum rejecting the two ends of the range as well.
GetVapPresFromRelHumOpenRange(TDryBulb, RelHum) ==
  IF FLe(RelHum, Zero) \/ FGe(RelHum, One)
  THEN Raise(ValueError, MsgRelHumRange)
  ELSE LET s == Call("GetSatVapPres", <<TDryBulb>>)
       IN IF ~s.ok THEN s ELSE Ok(FMul(RelHum, s.val))

GetVapPresFromRelHum(TDryBulb, RelHum) ==
  IF FLt(RelHum, Zero) \/ FGt(RelHum, One)
  THEN Raise(ValueError, MsgRelHumRange)
  ELSE LET s == Call("GetSatVapPres", <<TDryBulb>>)
       IN IF ~s.ok THEN s ELSE Ok(FMul(RelHum, s.val))

GetRelHumFromVapPres(TDryBulb, VapPres) ==
  IF FLt(VapPres, Zero)
  THEN Raise(ValueError, MsgVapPresNeg)
  ELSE LET s == Call("GetSatVapPres", <<TDryBulb>>)
       IN IF ~s.ok THEN s ELSE Call("PyDiv", <<VapPres, s.val>>)

\* The passes the model lets the Newton-Raphson loop make.
MaxNRIter == 40

MsgNRCap == "Newton-Raphson loop still running after MaxNRIter iterations"

\* The body of the loop without the clamp of the new estimate to the bounds.
NRBodyUnclamped(TDewPoint_iter, p) ==
  LET StepSize == IF FGt(TDewPoint_iter, p.TMidPoint)
                  THEN FNeg(p.STEPSIZE) ELSE p.STEPSIZE
      s1 == Call("GetSatVapPres", <<TDewPoint_iter>>)
      s2 == Call("GetSatVapPres", <<FAdd(TDewPoint_iter, StepSize)>>)
  IN IF ~s1.ok THEN s1
     ELSE IF ~s2.ok THEN s2
     ELSE LET lnVP_iter == FLog(s1.val)
              lnVP_step == FLog(s2.val)
              d_lnVP    == FDiv(FSub(lnVP_step, lnVP_iter), StepSize)
              q         == PyDiv(FSub(lnVP_iter, p.lnVP), d_lnVP)
          IN IF ~<<lnVP_iter, lnVP_step, d_lnVP, q>>[4].ok THEN q
             ELSE Ok(FSub(TDewPoint_iter, q.val))

\* The body of the while loop up to the clamping of the new estimate;
\* p holds the values fixed before the loop (lnVP, lo, hi, TMidPoint,
\* STEPSIZE).
NRBody(TDewPoint_iter, p) ==
  LET StepSize == IF FGt(TDewPoint_iter, p.TMidPoint)
                  THEN FNeg(p.STEPSIZE) ELSE p.STEPSIZE
      s1 == Call("GetSatVapPres", <<TDewPoint_iter>>)
      s2 == Call("GetSatVapPres", <<FAdd(TDewPoint_iter, StepSize)>>)
  IN IF ~s1.ok THEN s1
     ELSE IF ~s2.ok THEN s2
     ELSE LET lnVP_iter == FLog(s1.val)
              lnVP_step == FLog(s2.val)
              d_lnVP    == FDiv(FSub(lnVP_step, lnVP_iter), StepSize)
              q         == PyDiv(FSub(lnVP_iter, p.lnVP), d_lnVP)
          IN IF ~<<lnVP_iter, lnVP_step, d_lnVP, q>>[4].ok THEN q
             ELSE Ok(FMin(FMax(FSub(TDewPoint_iter, q.val), p.lo), p.hi))

\* The state of the loop: the estimate, the passes made, whether the loop
\* has been left (by break or by an exception) and the exception, if any.
NRStart(TDryBulb) ==
  [TDewPoint |-> TDryBulb, iters |-> 0, left |-> FALSE, ret |-> Ok(TDryBulb)]

\* One pass of the while loop, with the test that breaks out of it.
NRStep(s, p) ==
  LET nxt == NRBody(s.TDewPoint, p)
  IN IF ~nxt.ok
     THEN [s EXCEPT !.iters = @ + 1, !.left = TRUE, !.ret = nxt]
     ELSE [TDewPoint |-> nxt.val, iters |-> s.iters + 1,
           left |-> FLe(FAbs(FSub(nxt.val, s.TDewPoint)), TOL), ret |-> nxt]

\* The passes of the i-th of the eight runs that n passes are made in.
Part(n, i) ==
  LET k == (n + 7) \div 8
      r == n - (i - 1) * k
  IN IF r < 0 THEN 0 ELSE IF r < k THEN r ELSE k

\* n passes of the while True loop from state s, fewer if it is left before.
NRLoop(s, n, p) ==
  IF s.left \/ n = 0 THEN s
  ELSE IF n = 1 THEN NRStep(s, p)
  ELSE LET s1 == Call("NRLoop", <<s, Part(n, 1), p>>)
           s2 == Call("NRLoop", <<s1, Part(n, 2), p>>)
           s3 == Call("NRLoop", <<s2, Part(n, 3), p>>)
           s4 == Call("NRLoop", <<s3, Part(n, 4), p>>)
           s5 == Call("NRLoop", <<s4, Part(n, 5), p>>)
           s6 == Call("NRLoop", <<s5, Part(n, 6), p>>)
           s7 == Call("NRLoop", <<s6, Part(n, 7), p>>)
           s8 == Call("NRLoop", <<s7, Part(n, 8), p>>)
       IN <<s1, s2, s3, s4, s5, s6, s7, s8>>[8]

\* GetTDewPointFromVapPres checking VapPres against the lower end of the
\* accepted range only.
NREnterLowerEndOnly(TDryBulb, VapPres) ==
  LET ip == isIP
  IN IF ~ip.ok THEN [entered |-> FALSE, ret |-> ip, p |-> <<>>]
     ELSE LET lo == IF ip.val THEN Dec(-148, 0) ELSE Dec(-100, 0)
              hi == IF ip.val THEN Dec(392, 0) ELSE Dec(200, 0)
              STEPSIZE == IF ip.val THEN FDiv(FMul(Dec(1, -2), Dec(9, 0)), Dec(5, 0))
                          ELSE Dec(1, -2)
              TMidPoint == FDiv(FAdd(lo, hi), Two)
              slo == Call("GetSatVapPres", <<lo>>)
          IN IF ~slo.ok THEN [entered |-> FALSE, ret |-> slo, p |-> <<>>]
             ELSE IF FLt(VapPres, slo.val)
             THEN [entered |-> FALSE, ret |-> Raise(ValueError, MsgVapPresRange), p |-> <<>>]
             ELSE LET lnVP == PyLog(VapPres)
                  IN IF ~lnVP.ok THEN [entered |-> FALSE, ret |-> lnVP, p |-> <<>>]
                     ELSE [entered |-> TRUE, ret |-> Ok(TDryBulb),
                           p |-> [lnVP |-> lnVP.val, lo |-> lo, hi |-> hi,
                                  TMidPoint |-> TMidPoint, STEPSIZE |-> STEPSIZE]]

\* GetTDewPointFromVapPres up to its while loop: whether the loop is entered,
\* the exception raised if it is not, and the values fixed before the loop.
NREnter(TDryBulb, VapPres) ==
  LET ip == isIP
  IN IF ~ip.ok THEN [entered |-> FALSE, ret |-> ip, p |-> <<>>]
     ELSE LET lo == IF ip.val THEN Dec(-148, 0) ELSE Dec(-100, 0)
              hi == IF ip.val THEN Dec(392, 0) ELSE Dec(200, 0)
              STEPSIZE == IF ip.val THEN FDiv(FMul(Dec(1, -2), Dec(9, 0)), Dec(5, 0))
                          ELSE Dec(1, -2)
              TMidPoint == FDiv(FAdd(lo, hi), Two)
              slo == Call("GetSatVapPres", <<lo>>)
              shi == Call("GetSatVapPres", <<hi>>)
          IN IF ~slo.ok THEN [entered |-> FALSE, ret |-> slo, p |-> <<>>]
             ELSE IF FLt(VapPres, slo.val)
             THEN [entered |-> FALSE, ret |-> Raise(ValueError, MsgVapPresRange), p |-> <<>>]
             ELSE IF ~shi.ok THEN [entered |-> FALSE, ret |-> shi, p |-> <<>>]
             ELSE IF FGt(VapPres, shi.val)
             THEN [entered |-> FALSE, ret |-> Raise(ValueError, MsgVapPresRange), p |-> <<>>]
             ELSE LET lnVP == PyLog(VapPres)
                  IN IF ~lnVP.ok THEN [entered |-> FALSE, ret |-> lnVP, p |-> <<>>]
                     ELSE [entered |-> TRUE, ret |-> Ok(TDryBulb),
                           p |-> [lnVP |-> lnVP.val, lo |-> lo, hi |-> hi,
                                  TMidPoint |-> TMidPoint, STEPSIZE |-> STEPSIZE]]

\* The end of GetTDewPointFromVapPres without the clamp to the dry bulb.
NRExitUnclamped(r, TDryBulb) ==
  IF ~r.ret.ok THEN r.ret ELSE Ok(r.TDewPoint)

\* What GetTDewPointFromVapPres returns once its loop is left in state r.
NRExit(r, TDryBulb) ==
  IF ~r.ret.ok THEN r.ret ELSE Ok(FMin(r.TDewPoint, TDryBulb))

\* The call of frame f raises, or breaks out of its loop, with outcome ret.
ThreadDone(f, ret) == [f EXCEPT !.s.pc = "done", !.s.ret = ret]

\* GetTDewPointFromVapPres from the return of a call of isIP up to its next
\* access to a global, f being the frame of the call.  isIP has returned, so
\* __UNITS is what its last comparison loaded.
ThreadAfterIsIP(f) ==
  LET VapPres == f.args[2]
      s       == f.s
  IN CASE s.site = "bounds" ->
            LET lo == IF UNITS = IP THEN Dec(-148, 0) ELSE Dec(-100, 0)
                hi == IF UNITS = IP THEN Dec(392, 0) ELSE Dec(200, 0)
                STEPSIZE == IF UNITS = IP
                            THEN FDiv(FMul(Dec(1, -2), Dec(9, 0)), Dec(5, 0))
                            ELSE Dec(1, -2)
            IN [f EXCEPT !.p = [lo |-> lo, hi |-> hi, STEPSIZE |-> STEPSIZE,
                                TMidPoint |-> FDiv(FAdd(lo, hi), Two)],
                         !.s.site = "lo", !.s.pc = "IP"]
       [] s.site = "lo" ->
            LET slo == Call("GetSatVapPres", <<f.p.lo>>)
            IN IF ~slo.ok THEN ThreadDone(f, slo)
               ELSE IF FLt(VapPres, slo.val)
               THEN ThreadDone(f, Raise(ValueError, MsgVapPresRange))
               ELSE [f EXCEPT !.s.site = "hi", !.s.pc = "IP"]
       [] s.site = "hi" ->
            LET shi == Call("GetSatVapPres", <<f.p.hi>>)
            IN IF ~shi.ok THEN ThreadDone(f, shi)
               ELSE IF FGt(VapPres, shi.val)
               THEN ThreadDone(f, Raise(ValueError, MsgVapPresRange))
               ELSE LET lnVP == PyLog(VapPres)
                    IN IF ~lnVP.ok THEN ThreadDone(f, lnVP)
                       ELSE [f EXCEPT !.s.lnVP = lnVP.val,
                                      !.s.site = "iter", !.s.pc = "IP"]
       [] s.site = "iter" ->
            LET s1 == Call("GetSatVapPres", <<s.TDewPoint>>)
            IN IF ~s1.ok THEN ThreadDone(f, s1)
               ELSE [f EXCEPT !.s.lnVP_iter = FLog(s1.val),
                              !.s.site = "step", !.s.pc = "IP"]
       [] s.site = "step" ->
            LET StepSize == IF FGt(s.TDewPoint, f.p.TMidPoint)
                            THEN FNeg(f.p.STEPSIZE) ELSE f.p.STEPSIZE
                s2 == Call("GetSatVapPres", <<FAdd(s.TDewPoint, StepSize)>>)
            IN IF ~s2.ok THEN ThreadDone(f, s2)
               ELSE LET lnVP_step == FLog(s2.val)
                        d_lnVP    == FDiv(FSub(lnVP_step, s.lnVP_iter), StepSize)
                        q         == PyDiv(FSub(s.lnVP_iter, s.lnVP), d_lnVP)
                    IN IF ~<<lnVP_step, d_lnVP, q>>[3].ok THEN ThreadDone(f, q)
                       ELSE [f EXCEPT !.s.TDewPoint_iter = s.TDewPoint,
                                      !.s.TDewPoint =
                                         FMin(FMax(FSub(s.TDewPoint, q.val), f.p.lo), f.p.hi),
                                      !.s.pc = "TOL"]

\* GetTDewPointFromVapPres: its outcome and the loop passes it made.
GetTDewPointFromVapPresRun(TDryBulb, VapPres) ==
  LET e == Call("NREnter", <<TDryBulb, VapPres>>)
  IN IF ~e.entered THEN [ret |-> e.ret, iters |-> 0]
     ELSE LET r == Call("NRLoop", <<NRStart(TDryBulb), MaxNRIter, e.p>>)
          IN IF ~r.left
             THEN [ret |-> Raise("ModelCap", MsgNRCap), iters |-> r.iters]
             ELSE [ret |-> NRExit(r, TDryBulb), iters |-> r.iters]

GetTDewPointFromVapPres(TDryBulb, VapPres) ==
  GetTDewPointFromVapPresRun(TDryBulb, VapPres).ret

GetVapPresFromTDewPoint(TDewPoint) == Call("GetSatVapPres", <<TDewPoint>>)

----------------------------------------------------------------------------
(* Conversions between humidity ratio and vapor pressure.                  *)

GetHumRatioFromVapPres(VapPres, Pressure) ==
  IF FLt(VapPres, Zero)
  THEN Raise(ValueError, MsgVapPresNeg)
  ELSE Call("PyDiv", <<FMul(Dec(621945, -6), VapPres), FSub(Pressure, VapPres)>>)

GetVapPresFromHumRatio(HumRatio, Pressure) ==
  IF FLt(HumRatio, Zero)
  THEN Raise(ValueError, MsgHumRatioNeg2)
  ELSE Call("PyDiv", <<FMul(Pressure, HumRatio), FAdd(Dec(621945, -6), HumRatio)>>)

GetSatHumRatio(TDryBulb, Pressure) ==
  LET s == Call("GetSatVapPres", <<TDryBulb>>)
  IN IF ~s.ok THEN s
     ELSE Call("PyDiv", <<FMul(Dec(621945, -6), s.val), FSub(Pressure, s.val)>>)

----------------------------------------------------------------------------
(* Conversions from wet-bulb temperature, dew-point temperature, or        *)
(* relative humidity to humidity ratio.                                    *)

GetTDewPointFromHumRatio(TDryBulb, HumRatio, Pressure) ==
  IF FLt(HumRatio, Zero)
  THEN Raise(ValueError, MsgHumRatioNeg1)
  ELSE LET VapPres == Call("GetVapPresFromHumRatio", <<HumRatio, Pressure>>)
       IN IF ~VapPres.ok THEN VapPres
          ELSE Call("GetTDewPointFromVapPres", <<TDryBulb, VapPres.val>>)

\* (num - c * (TDryBulb - TWetBulb)) / den, the last step of eqn 33 and 35.
WetBulbEqn(a0, a1, Wsstar, c, TDryBulb, TWetBulb, b0, b1, b2) ==
  LET num == FSub(FMul(FSub(a0, FMul(a1, TWetBulb)), Wsstar),
                  FMul(c, FSub(TDryBulb, TWetBulb)))
      den == FSub(FAdd(b0, FMul(b1, TDryBulb)), FMul(b2, TWetBulb))
  IN <<num, den, PyDiv(num, den)>>[3]

GetHumRatioFromTWetBulb(TDryBulb, TWetBulb, Pressure) ==
  IF FGt(TWetBulb, TDryBulb)
  THEN Raise(ValueError, MsgWetAboveDry)
  ELSE LET Wsstar == Call("GetSatHumRatio", <<TWetBulb, Pressure>>)
           ip     == isIP
       IN IF ~Wsstar.ok THEN Wsstar
          ELSE IF ~ip.ok THEN ip
          ELSE IF ip.val
          THEN IF FGe(TWetBulb, Dec(32, 0))
               THEN WetBulbEqn(Dec(1093, 0), Dec(556, -3), Wsstar.val, Dec(240, -3),
                               TDryBulb, TWetBulb, Dec(1093, 0), Dec(444, -3), One)
               ELSE WetBulbEqn(Dec(1220, 0), Dec(4, -2), Wsstar.val, Dec(240, -3),
                               TDryBulb, TWetBulb, Dec(1220, 0), Dec(444, -3), Dec(48, -2))
          ELSE IF FGe(TWetBulb, Zero)
               THEN WetBulbEqn(Dec(2501, 0), Dec(2326, -3), Wsstar.val, Dec(1006, -3),
                               TDryBulb, TWetBulb, Dec(2501, 0), Dec(186, -2), Dec(4186, -3))
               ELSE WetBulbEqn(Dec(2830, 0), Dec(24, -2), Wsstar.val, Dec(1006, -3),
                               TDryBulb, TWetBulb, Dec(2830, 0), Dec(186, -2), Dec(21, -1))

\* The passes the model lets the bisection loop make.
MaxBisect == 40

MsgBisectCap == "bisection loop still running after MaxBisect iterations"

\* The state of the loop: the two bounds, the guess, the passes made,
\* whether the loop has been left and the outcome it was left with.
BisectStart(TDewPoint, TDryBulb) ==
  [TWetBulbInf |-> TDewPoint, TWetBulbSup |-> TDryBulb,
   TWetBulb |-> FDiv(FAdd(TDewPoint, TDryBulb), Two),
   iters |-> 0, left |-> FALSE, ret |-> Ok(TDryBulb)]

\* The bisection pass moving neither bound when the humidity ratio at the
\* midpoint exceeds the target.
BisectStepKeepsSup(s, TDryBulb, HumRatio, Pressure) ==
  IF ~FGt(FSub(s.TWetBulbSup, s.TWetBulbInf), TOL)
  THEN [s EXCEPT !.left = TRUE, !.ret = Ok(s.TWetBulb)]
  ELSE LET Wstar == Call("GetHumRatioFromTWetBulb", <<TDryBulb, s.TWetBulb, Pressure>>)
       IN IF ~Wstar.ok
          THEN [s EXCEPT !.iters = @ + 1, !.left = TRUE, !.ret = Wstar]
          ELSE IF FGt(Wstar.val, HumRatio)
          THEN [s EXCEPT !.TWetBulb = FDiv(FAdd(s.TWetBulbSup, s.TWetBulbInf), Two),
                         !.iters = @ + 1]
          ELSE [s EXCEPT !.TWetBulbInf = s.TWetBulb,
                         !.TWetBulb = FDiv(FAdd(s.TWetBulbSup, s.TWetBulb), Two),
                         !.iters = @ + 1]

\* The bisection pass with the two branches exchanged.
BisectStepExchanged(s, TDryBulb, HumRatio, Pressure) ==
  IF ~FGt(FSub(s.TWetBulbSup, s.TWetBulbInf), TOL)
  THEN [s EXCEPT !.left = TRUE, !.ret = Ok(s.TWetBulb)]
  ELSE LET Wstar == Call("GetHumRatioFromTWetBulb", <<TDryBulb, s.TWetBulb, Pressure>>)
       IN IF ~Wstar.ok
          THEN [s EXCEPT !.iters = @ + 1, !.left = TRUE, !.ret = Wstar]
          ELSE IF FGt(Wstar.val, HumRatio)
          THEN [s EXCEPT !.TWetBulbInf = s.TWetBulb,
                         !.TWetBulb = FDiv(FAdd(s.TWetBulbSup, s.TWetBulb), Two),
                         !.iters = @ + 1]
          ELSE [s EXCEPT !.TWetBulbSup = s.TWetBulb,
                         !.TWetBulb = FDiv(FAdd(s.TWetBulb, s.TWetBulbInf), Two),
                         !.iters = @ + 1]

\* The test of the while loop and, when it passes, one pass of its body.
BisectStep(s, TDryBulb, HumRatio, Pressure) ==
  IF ~FGt(FSub(s.TWetBulbSup, s.TWetBulbInf), TOL)
  THEN [s EXCEPT !.left = TRUE, !.ret = Ok(s.TWetBulb)]
  ELSE LET Wstar == Call("GetHumRatioFromTWetBulb", <<TDryBulb, s.TWetBulb, Pressure>>)
       IN IF ~Wstar.ok
          THEN [s EXCEPT !.iters = @ + 1, !.left = TRUE, !.ret = Wstar]
          ELSE IF FGt(Wstar.val, HumRatio)
          THEN [s EXCEPT !.TWetBulbSup = s.TWetBulb,
                         !.TWetBulb = FDiv(FAdd(s.TWetBulb, s.TWetBulbInf), Two),
                         !.iters = @ + 1]
          ELSE [s EXCEPT !.TWetBulbInf = s.TWetBulb,
                         !.TWetBulb = FDiv(FAdd(s.TWetBulbSup, s.TWetBulb), Two),
                         !.iters = @ + 1]

\* n steps of the while loop from state s, fewer if it is left before.
BisectLoop(s, n, TDryBulb, HumRatio, Pressure) ==
  IF s.left \/ n = 0 THEN s
  ELSE IF n = 1 THEN BisectStep(s, TDryBulb, HumRatio, Pressure)
  ELSE LET s1 == Call("BisectLoop", <<s, Part(n, 1), TDryBulb, HumRatio, Pressure>>)
           s2 == Call("BisectLoop", <<s1, Part(n, 2), TDryBulb, HumRatio, Pressure>>)
           s3 == Call("BisectLoop", <<s2, Part(n, 3), TDryBulb, HumRatio, Pressure>>)
           s4 == Call("BisectLoop", <<s3, Part(n, 4), TDryBulb, HumRatio, Pressure>>)
           s5 == Call("BisectLoop", <<s4, Part(n, 5), TDryBulb, HumRatio, Pressure>>)
           s6 == Call("BisectLoop", <<s5, Part(n, 6), TDryBulb, HumRatio, Pressure>>)
           s7 == Call("BisectLoop", <<s6, Part(n, 7), TDryBulb, HumRatio, Pressure>>)
           s8 == Call("BisectLoop", <<s7, Part(n, 8), TDryBulb, HumRatio, Pressure>>)
       IN <<s1, s2, s3, s4, s5, s6, s7, s8>>[8]

\* GetTWetBulbFromHumRatio up to its while loop: whether the loop is reached,
\* the exception raised if it is not, and the loop's first state.
BisectEnter(TDryBulb, HumRatio, Pressure) ==
  IF FLt(HumRatio, Zero)
  THEN [entered |-> FALSE, ret |-> Raise(ValueError, MsgHumRatioNeg1), s |-> <<>>]
  ELSE LET TDewPoint == Call("GetTDewPointFromHumRatio", <<TDryBulb, HumRatio, Pressure>>)
       IN IF ~TDewPoint.ok THEN [entered |-> FALSE, ret |-> TDewPoint, s |-> <<>>]
          ELSE [entered |-> TRUE, ret |-> TDewPoint,
                s |-> BisectStart(TDewPoint.val, TDryBulb)]

\* GetTWetBulbFromHumRatio: its outcome and the loop passes it made.
GetTWetBulbFromHumRatioRun(TDryBulb, HumRatio, Pressure) ==
  LET e == Call("BisectEnter", <<TDryBulb, HumRatio, Pressure>>)
  IN IF ~e.entered THEN [ret |-> e.ret, iters |-> 0]
     ELSE LET r == Call("BisectLoop", <<e.s, MaxBisect + 1, TDryBulb, HumRatio, Pressure>>)
          IN IF ~r.left
             THEN [ret |-> Raise("ModelCap", MsgBisectCap), iters |-> r.iters]
             ELSE [ret |-> r.ret, iters |-> r.iters]

GetTWetBulbFromHumRatio(TDryBulb, HumRatio, Pressure) ==
  GetTWetBulbFromHumRatioRun(TDryBulb, HumRatio, Pressure).ret

GetHumRatioFromRelHum(TDryBulb, RelHum, Pressure) ==
  IF FLt(RelHum, Zero) \/ FGt(RelHum, One)
  THEN Raise(ValueError, MsgRelHumRange)
  ELSE LET VapPres == Call("GetVapPresFromRelHum", <<TDryBulb, RelHum>>)
       IN IF ~VapPres.ok THEN VapPres
          ELSE Call("GetHumRatioFromVapPres", <<VapPres.val, Pressure>>)

GetRelHumFromHumRatio(TDryBulb, HumRatio, Pressure) ==
  IF FLt(HumRatio, Zero)
  THEN Raise(ValueError, MsgHumRatioNeg1)
  ELSE LET VapPres == Call("GetVapPresFromHumRatio", <<HumRatio, Pressure>>)
       IN IF ~VapPres.ok THEN VapPres
          ELSE Call("GetRelHumFromVapPres", <<TDryBulb, VapPres.val>>)

GetHumRatioFromTDewPoint(TDewPoint, Pressure) ==
  LET VapPres == Call("GetSatVapPres", <<TDewPoint>>)
  IN IF ~VapPres.ok THEN VapPres
     ELSE Call("GetHumRatioFromVapPres", <<VapPres.val, Pressure>>)

----------------------------------------------------------------------------
(* Conversions between dew point, wet bulb, and relative humidity.         *)

GetTWetBulbFromTDewPoint(TDryBulb, TDewPoint, Pressure) ==
  IF FGt(TDewPoint, TDryBulb)
  THEN Raise(ValueError, MsgDewAboveDry)
  ELSE LET HumRatio == Call("GetHumRatioFromTDewPoint", <<TDewPoint, Pressure>>)
       IN IF ~HumRatio.ok THEN HumRatio
          ELSE Call("GetTWetBulbFromHumRatio", <<TDryBulb, HumRatio.val, Pressure>>)

GetTWetBulbFromRelHum(TDryBulb, RelHum, Pressure) ==
  IF FLt(RelHum, Zero) \/ FGt(RelHum, One)
  THEN Raise(ValueError, MsgRelHumRange)
  ELSE LET HumRatio == Call("GetHumRatioFromRelHum", <<TDryBulb, RelHum, Pressure>>)
       IN IF ~HumRatio.ok THEN HumRatio
          ELSE Call("GetTWetBulbFromHumRatio", <<TDryBulb, HumRatio.val, Pressure>>)

GetRelHumFromTDewPoint(TDryBulb, TDewPoint) ==
  IF FGt(TDewPoint, TDryBulb)
  THEN Raise(ValueError, MsgDewAboveDry)
  ELSE LET VapPres    == Call("GetSatVapPres", <<TDewPoint>>)
           SatVapPres == Call("GetSatVapPres", <<TDryBulb>>)
       IN IF ~VapPres.ok THEN VapPres
          ELSE IF ~SatVapPres.ok THEN SatVapPres
          ELSE Call("PyDiv", <<VapPres.val, SatVapPres.val>>)

GetRelHumFromTWetBulb(TDryBulb, TWetBulb, Pressure) ==
  IF FGt(TWetBulb, TDryBulb)
  THEN Raise(ValueError, MsgWetAboveDry)
  ELSE LET HumRatio == Call("GetHumRatioFromTWetBulb", <<TDryBulb, TWetBulb, Pressure>>)
       IN IF ~HumRatio.ok THEN HumRatio
          ELSE Call("GetRelHumFromHumRatio", <<TDryBulb, HumRatio.val, Pressure>>)

GetTDewPointFromRelHum(TDryBulb, RelHum) ==
  IF FLt(RelHum, Zero) \/ FGt(RelHum, One)
  THEN Raise(ValueError, MsgRelHumRange)
  ELSE LET VapPres == Call("GetVapPresFromRelHum", <<TDryBulb, RelHum>>)
       IN IF ~VapPres.ok THEN VapPres
          ELSE Call("GetTDewPointFromVapPres", <<TDryBulb, VapPres.val>>)

GetTDewPointFromTWetBulb(TDryBulb, TWetBulb, Pressure) ==
  IF FGt(TWetBulb, TDryBulb)
  THEN Raise(ValueError, MsgWetAboveDry)
  ELSE LET HumRatio == Call("GetHumRatioFromTWetBulb", <<TDryBulb, TWetBulb, Pressure>>)
       IN IF ~HumRatio.ok THEN HumRatio
          ELSE Call("GetTDewPointFromHumRatio", <<TDryBulb, HumRatio.val, Pressure>>)

----------------------------------------------------------------------------
(* Dry air, saturated air and moist air calculations.                      *)

R_DA_IP == Dec(53350, -3)

R_DA_SI == Dec(287042, -3)

GetDryAirEnthalpy(TDryBulb) ==
  LET ip == isIP
  IN IF ~ip.ok THEN ip
     ELSE IF ip.val THEN Ok(FMul(Dec(240, -3), TDryBulb))
     ELSE Ok(FMul(Dec(1006, 0), TDryBulb))

GetDryAirDensity(TDryBulb, Pressure) ==
  LET ip == isIP
  IN IF ~ip.ok THEN ip
     ELSE IF ip.val
     THEN Call("PyDiv", <<FDiv(FMul(Dec(144, 0), Pressure), R_DA_IP),
                GetTRankineFromTFahrenheit(TDryBulb)>>)
     ELSE Call("PyDiv", <<FDiv(Pressure, R_DA_SI), GetTKelvinFromTCelsius(TDryBulb)>>)

GetDryAirVolume(TDryBulb, Pressure) ==
  LET ip == isIP
  IN IF ~ip.ok THEN ip
     ELSE IF ip.val
     THEN Call("PyDiv", <<FMul(GetTRankineFromTFahrenheit(TDryBulb), R_DA_IP),
                FMul(Dec(144, 0), Pressure)>>)
     ELSE Call("PyDiv", <<FMul(GetTKelvinFromTCelsius(TDryBulb), R_DA_SI), Pressure>>)

\* GetMoistAirEnthalpy reading the unit system before it checks HumRatio.
GetMoistAirEnthalpyUnitsFirst(TDryBulb, HumRatio) ==
  LET ip == isIP
  IN IF ~ip.ok THEN ip
     ELSE IF FLt(HumRatio, Zero)
     THEN Raise(ValueError, MsgHumRatioNeg2)
     ELSE IF ip.val
     THEN Ok(FAdd(FMul(Dec(240, -3), TDryBulb),
                  FMul(HumRatio, FAdd(Dec(1061, 0), FMul(Dec(444, -3), TDryBulb)))))
     ELSE Ok(FMul(FAdd(FMul(Dec(1006, -3), TDryBulb),
                       FMul(HumRatio, FAdd(Dec(2501, 0), FMul(Dec(186, -2), TDryBulb)))),
                  Dec(1000, 0)))

GetMoistAirEnthalpy(TDryBulb, HumRatio) ==
  IF FLt(HumRatio, Zero)
  THEN Raise(ValueError, MsgHumRatioNeg2)
  ELSE LET ip == isIP
       IN IF ~ip.ok THEN ip
          ELSE IF ip.val
          THEN Ok(FAdd(FMul(Dec(240, -3), TDryBulb),
                       FMul(HumRatio, FAdd(Dec(1061, 0), FMul(Dec(444, -3), TDryBulb)))))
          ELSE Ok(FMul(FAdd(FMul(Dec(1006, -3), TDryBulb),
                            FMul(HumRatio, FAdd(Dec(2501, 0), FMul(Dec(186, -2), TDryBulb)))),
                       Dec(1000, 0)))

GetSatAirEnthalpy(TDryBulb, Pressure) ==
  LET SatHumRatio == Call("GetSatHumRatio", <<TDryBulb, Pressure>>)
  IN IF ~SatHumRatio.ok THEN SatHumRatio
     ELSE Call("GetMoistAirEnthalpy", <<TDryBulb, SatHumRatio.val>>)

GetVaporPressureDeficit(TDryBulb, HumRatio, Pressure) ==
  IF FLt(HumRatio, Zero)
  THEN Raise(ValueError, MsgHumRatioNeg2)
  ELSE LET RelHum     == Call("GetRelHumFromHumRatio", <<TDryBulb, HumRatio, Pressure>>)
           SatVapPres == Call("GetSatVapPres", <<TDryBulb>>)
       IN IF ~RelHum.ok THEN RelHum
          ELSE IF ~SatVapPres.ok THEN SatVapPres
          ELSE Ok(FMul(SatVapPres.val, FSub(One, RelHum.val)))

GetDegreeOfSaturation(TDryBulb, HumRatio, Pressure) ==
  IF FLt(HumRatio, Zero)
  THEN Raise(ValueError, MsgHumRatioNeg2)
  ELSE LET SatHumRatio == Call("GetSatHumRatio", <<TDryBulb, Pressure>>)
       IN IF ~SatHumRatio.ok THEN SatHumRatio
          ELSE Call("PyDiv", <<HumRatio, SatHumRatio.val>>)

GetMoistAirVolume(TDryBulb, HumRatio, Pressure) ==
  IF FLt(HumRatio, Zero)
  THEN Raise(ValueError, MsgHumRatioNeg2)
  ELSE LET ip == isIP
           w  == FAdd(One, FMul(Dec(1607858, -6), HumRatio))
       IN IF ~ip.ok THEN ip
          ELSE IF ip.val
          THEN Call("PyDiv", <<FMul(FMul(R_DA_IP, GetTRankineFromTFahrenheit(TDryBulb)), w),
                     FMul(Dec(144, 0), Pressure)>>)
          ELSE Call("PyDiv", <<FMul(FMul(R_DA_SI, GetTKelvinFromTCelsius(TDryBulb)), w), Pressure>>)

GetMoistAirDensity(TDryBulb, HumRatio, Pressure) ==
  IF FLt(HumRatio, Zero)
  THEN Raise(ValueError, MsgHumRatioNeg2)
  ELSE LET MoistAirVolume == Call("GetMoistAirVolume", <<TDryBulb, HumRatio, Pressure>>)
       IN IF ~MoistAirVolume.ok THEN MoistAirVolume
          ELSE Call("PyDiv", <<FAdd(One, HumRatio), MoistAirVolume.val>>)

----------------------------------------------------------------------------
(* Standard atmosphere.                                                    *)

MsgMathRange == "math range error"

\* math.exp(y): OverflowError above the largest float.
PyExp(y) ==
  IF FGt(y, Dec(70978, -2)) THEN Raise("OverflowError", MsgMathRange) ELSE Ok(FExp(y))

\* math.pow(x, y) for a y that is no integer: ValueError when x < 0.
PyPow(x, y) ==
  IF x.m < 0 THEN Raise(ValueError, MsgMathDomain)
  ELSE IF x.m = 0 THEN Ok(Zero)
  ELSE LET l == FLog(x) IN <<l, PyExp(FMul(y, l))>>[2]

GetStandardAtmPressure(Altitude) ==
  LET ip == isIP
  IN IF ~ip.ok THEN ip
     ELSE LET p == IF ip.val
                   THEN Call("PyPow", <<FSub(One, FMul(Dec(68754, -10), Altitude)), Dec(52559, -4)>>)
                   ELSE Call("PyPow", <<FSub(One, FMul(Dec(225577, -10), Altitude)), Dec(52559, -4)>>)
          IN IF ~p.ok THEN p
             ELSE Ok(FMul(IF ip.val THEN Dec(14696, -3) ELSE Dec(101325, 0), p.val))

GetStandardAtmTemperature(Altitude) ==
  LET ip == isIP
  IN IF ~ip.ok THEN ip
     ELSE IF ip.val THEN Ok(FSub(Dec(59, 0), FMul(Dec(356620, -8), Altitude)))
     ELSE Ok(FSub(Dec(15, 0), FMul(Dec(65, -4), Altitude)))

GetSeaLevelPressure(StationPressure, Altitude, TDryBulb) ==
  LET ip == isIP
  IN IF ~ip.ok THEN ip
     ELSE LET TColumn == IF ip.val
                         THEN FAdd(TDryBulb, FDiv(FMul(Dec(36, -4), Altitude), Two))
                         ELSE FAdd(TDryBulb, FDiv(FMul(Dec(65, -4), Altitude), Two))
              H == IF ip.val
                   THEN FMul(Dec(53351, -3), GetTRankineFromTFahrenheit(TColumn))
                   ELSE FDiv(FMul(Dec(287055, -3), GetTKelvinFromTCelsius(TColumn)),
                             Dec(9807, -3))
              q == PyDiv(Altitude, H)
          IN IF ~<<TColumn, H, q>>[3].ok THEN q
             ELSE LET x == PyExp(q.val)
                  IN IF ~x.ok THEN x ELSE Ok(FMul(StationPressure, x.val))

GetStationPressure(SeaLevelPressure, Altitude, TDryBulb) ==
  LET d == Call("GetSeaLevelPressure", <<One, Altitude, TDryBulb>>)
  IN IF ~d.ok THEN d ELSE Call("PyDiv", <<SeaLevelPressure, d.val>>)

----------------------------------------------------------------------------
(* Functions to set all psychrometric values.                              *)

\* The last four results of the three composite functions, after HumRatio.
CalcTail(TDryBulb, HumRatio, Pressure, first) ==
  LET VapPres            == Call("GetVapPresFromHumRatio", <<HumRatio, Pressure>>)
      MoistAirEnthalpy   == Call("GetMoistAirEnthalpy", <<TDryBulb, HumRatio>>)
      MoistAirVolume     == Call("GetMoistAirVolume", <<TDryBulb, HumRatio, Pressure>>)
      DegreeOfSaturation == Call("GetDegreeOfSaturation", <<TDryBulb, HumRatio, Pressure>>)
  IN IF ~VapPres.ok THEN VapPres
     ELSE IF ~MoistAirEnthalpy.ok THEN MoistAirEnthalpy
     ELSE IF ~MoistAirVolume.ok THEN MoistAirVolume
     ELSE IF ~DegreeOfSaturation.ok THEN DegreeOfSaturation
     ELSE Ok(first \o <<VapPres.val, MoistAirEnthalpy.val, MoistAirVolume.val,
                        DegreeOfSaturation.val>>)

CalcPsychrometricsFromTWetBulb(TDryBulb, TWetBulb, Pressure) ==
  LET HumRatio == Call("GetHumRatioFromTWetBulb", <<TDryBulb, TWetBulb, Pressure>>)
  IN IF ~HumRatio.ok THEN HumRatio
     ELSE LET TDewPoint == Call("GetTDewPointFromHumRatio", <<TDryBulb, HumRatio.val, Pressure>>)
              RelHum    == Call("GetRelHumFromHumRatio", <<TDryBulb, HumRatio.val, Pressure>>)
          IN IF ~TDewPoint.ok THEN TDewPoint
             ELSE IF ~RelHum.ok THEN RelHum
             ELSE Call("CalcTail", <<TDryBulb, HumRatio.val, Pressure,
                           <<HumRatio.val, TDewPoint.val, RelHum.val>>>>)

CalcPsychrometricsFromTDewPoint(TDryBulb, TDewPoint, Pressure) ==
  LET HumRatio == Call("GetHumRatioFromTDewPoint", <<TDewPoint, Pressure>>)
  IN IF ~HumRatio.ok THEN HumRatio
     ELSE LET TWetBulb == Call("GetTWetBulbFromHumRatio", <<TDryBulb, HumRatio.val, Pressure>>)
              RelHum   == Call("GetRelHumFromHumRatio", <<TDryBulb, HumRatio.val, Pressure>>)
          IN IF ~TWetBulb.ok THEN TWetBulb
             ELSE IF ~RelHum.ok THEN RelHum
             ELSE Call("CalcTail", <<TDryBulb, HumRatio.val, Pressure,
                           <<HumRatio.val, TWetBulb.val, RelHum.val>>>>)

CalcPsychrometricsFromRelHum(TDryBulb, RelHum, Pressure) ==
  LET HumRatio == Call("GetHumRatioFromRelHum", <<TDryBulb, RelHum, Pressure>>)
  IN IF ~HumRatio.ok THEN HumRatio
     ELSE LET TWetBulb  == Call("GetTWetBulbFromHumRatio", <<TDryBulb, HumRatio.val, Pressure>>)
              TDewPoint == Call("GetTDewPointFromHumRatio", <<TDryBulb, HumRatio.val, Pressure>>)
          IN IF ~TWetBulb.ok THEN TWetBulb
             ELSE IF ~TDewPoint.ok THEN TDewPoint
             ELSE Call("CalcTail", <<TDryBulb, HumRatio.val, Pressure,
                           <<HumRatio.val, TWetBulb.val, TDewPoint.val>>>>)

----------------------------------------------------------------------------
(* Calls.                                                                  *)

\* The call fn(a[1], ..., a[n]): what the function named fn returns, or the
\* exception it raises, for the arguments a.
Dispatch(fn, a) ==
  CASE fn = "Normalize" -> Normalize(a[1], a[2])
    [] fn = "FloatAdd" -> FloatAdd(a[1], a[2])
    [] fn = "FloatMul" -> FloatMul(a[1], a[2])
    [] fn = "FloatDiv" -> FloatDiv(a[1], a[2])
    [] fn = "FloatCmp" -> FloatCmp(a[1], a[2])
    [] fn = "FloatMax" -> FloatMax(a[1], a[2])
    [] fn = "FloatMin" -> FloatMin(a[1], a[2])
    [] fn = "FloatLog" -> FloatLog(a[1])
    [] fn = "FloatExp" -> FloatExp(a[1])
    [] fn = "LnPwsIceIP" -> LnPwsIceIP(a[1])
    [] fn = "LnPwsWaterIP" -> LnPwsWaterIP(a[1])
    [] fn = "LnPwsIceSI" -> LnPwsIceSI(a[1])
    [] fn = "LnPwsWaterSI" -> LnPwsWaterSI(a[1])
    [] fn = "AtanhSeries" -> AtanhSeries(a[1])
    [] fn = "ExpSeries" -> ExpSeries(a[1])
    [] fn = "Square" -> Square(a[1])
    [] fn = "NREnter" -> NREnter(a[1], a[2])
    [] fn = "BisectEnter" -> BisectEnter(a[1], a[2], a[3])
    [] fn = "NRStep" -> NRStep(a[1], a[2])
    [] fn = "NRExit" -> NRExit(a[1], a[2])
    [] fn = "ThreadAfterIsIP" -> ThreadAfterIsIP(a[1])
    [] fn = "BisectStep" -> BisectStep(a[1], a[2], a[3], a[4])
    [] fn = "NRLoop" -> NRLoop(a[1], a[2], a[3])
    [] fn = "BisectLoop" -> BisectLoop(a[1], a[2], a[3], a[4], a[5])
    [] fn = "PyDiv" -> PyDiv(a[1], a[2])
    [] fn = "PyLog" -> PyLog(a[1])
    [] fn = "GetUnitSystem" -> GetUnitSystem
    [] fn = "isIP" -> isIP
    [] fn = "GetTRankineFromTFahrenheit" -> GetTRankineFromTFahrenheit(a[1])
    [] fn = "GetTKelvinFromTCelsius" -> GetTKelvinFromTCelsius(a[1])
    [] fn = "GetSatVapPresRun" -> GetSatVapPresRun(a[1])
    [] fn = "GetSatVapPres" -> GetSatVapPres(a[1])
    [] fn = "GetVapPresFromRelHum" -> GetVapPresFromRelHum(a[1], a[2])
    [] fn = "GetRelHumFromVapPres" -> GetRelHumFromVapPres(a[1], a[2])
    [] fn = "GetTDewPointFromVapPresRun" -> GetTDewPointFromVapPresRun(a[1], a[2])
    [] fn = "GetTDewPointFromVapPres" -> GetTDewPointFromVapPres(a[1], a[2])
    [] fn = "GetVapPresFromTDewPoint" -> GetVapPresFromTDewPoint(a[1])
    [] fn = "GetHumRatioFromVapPres" -> GetHumRatioFromVapPres(a[1], a[2])
    [] fn = "GetVapPresFromHumRatio" -> GetVapPresFromHumRatio(a[1], a[2])
    [] fn = "GetSatHumRatio" -> GetSatHumRatio(a[1], a[2])
    [] fn = "GetTDewPointFromHumRatio" -> GetTDewPointFromHumRatio(a[1], a[2], a[3])
    [] fn = "GetHumRatioFromTWetBulb" -> GetHumRatioFromTWetBulb(a[1], a[2], a[3])
    [] fn = "GetTWetBulbFromHumRatioRun" -> GetTWetBulbFromHumRatioRun(a[1], a[2], a[3])
    [] fn = "GetTWetBulbFromHumRatio" -> GetTWetBulbFromHumRatio(a[1], a[2], a[3])
    [] fn = "GetHumRatioFromRelHum" -> GetHumRatioFromRelHum(a[1], a[2], a[3])
    [] fn = "GetRelHumFromHumRatio" -> GetRelHumFromHumRatio(a[1], a[2], a[3])
    [] fn = "GetHumRatioFromTDewPoint" -> GetHumRatioFromTDewPoint(a[1], a[2])
    [] fn = "GetTWetBulbFromTDewPoint" -> GetTWetBulbFromTDewPoint(a[1], a[2], a[3])
    [] fn = "GetTWetBulbFromRelHum" -> GetTWetBulbFromRelHum(a[1], a[2], a[3])
    [] fn = "GetRelHumFromTDewPoint" -> GetRelHumFromTDewPoint(a[1], a[2])
    [] fn = "GetRelHumFromTWetBulb" -> GetRelHumFromTWetBulb(a[1], a[2], a[3])
    [] fn = "GetTDewPointFromRelHum" -> GetTDewPointFromRelHum(a[1], a[2])
    [] fn = "GetTDewPointFromTWetBulb" -> GetTDewPointFromTWetBulb(a[1], a[2], a[3])
    [] fn = "GetDryAirEnthalpy" -> GetDryAirEnthalpy(a[1])
    [] fn = "GetDryAirDensity" -> GetDryAirDensity(a[1], a[2])
    [] fn = "GetDryAirVolume" -> GetDryAirVolume(a[1], a[2])
    [] fn = "GetMoistAirEnthalpy" -> GetMoistAirEnthalpy(a[1], a[2])
    [] fn = "GetSatAirEnthalpy" -> GetSatAirEnthalpy(a[1], a[2])
    [] fn = "GetVaporPressureDeficit" -> GetVaporPressureDeficit(a[1], a[2], a[3])
    [] fn = "GetDegreeOfSaturation" -> GetDegreeOfSaturation(a[1], a[2], a[3])
    [] fn = "GetMoistAirVolume" -> GetMoistAirVolume(a[1], a[2], a[3])
    [] fn = "GetMoistAirDensity" -> GetMoistAirDensity(a[1], a[2], a[3])
    [] fn = "PyExp" -> PyExp(a[1])
    [] fn = "PyPow" -> PyPow(a[1], a[2])
    [] fn = "GetStandardAtmPressure" -> GetStandardAtmPressure(a[1])
    [] fn = "GetStandardAtmTemperature" -> GetStandardAtmTemperature(a[1])
    [] fn = "GetSeaLevelPressure" -> GetSeaLevelPressure(a[1], a[2], a[3])
    [] fn = "GetStationPressure" -> GetStationPressure(a[1], a[2], a[3])
    [] fn = "CalcTail" -> CalcTail(a[1], a[2], a[3], a[4])
    [] fn = "CalcPsychrometricsFromTWetBulb" -> CalcPsychrometricsFromTWetBulb(a[1], a[2], a[3])
    [] fn = "CalcPsychrometricsFromTDewPoint" -> CalcPsychrometricsFromTDewPoint(a[1], a[2], a[3])
    [] fn = "CalcPsychrometricsFromRelHum" -> CalcPsychrometricsFromRelHum(a[1], a[2], a[3])

----------------------------------------------------------------------------
(* The arguments callers pass.                                             *)

\* SetUnitSystem's arguments: the two members, and values that are no member.
UnitArgs == {IP, SI, "'SI'", "'IP'", None}

\* Temperatures at, just inside and just outside the ends of both fitted
\* ranges and at both freezing points.
RangeTemps ==
  {Dec(-148001, -3), Dec(-148, 0), Dec(-100001, -3), Dec(-100, 0), Zero, Dec(1, -3),
   Dec(25, 0), Dec(32, 0), Dec(32001, -3), Dec(200, 0), Dec(200001, -3),
   Dec(392, 0), Dec(392001, -3)}

\* Dry-bulb, wet-bulb and dew-point temperatures of the two-temperature calls.
PairTemps == {Dec(-5, 0), Dec(20, 0), Dec(25, 0)}

\* Dry-bulb temperatures of the other calls: two valid ones, one outside both ranges.
DryBulbs == {Dec(-5, 0), Dec(25, 0), Dec(500, 0)}

RelHums == {Dec(-1, -1), Zero, Dec(5, -1), One, Dec(15, -1)}

HumRatios == {Dec(-1, -2), Zero, Dec(1, -2)}

\* Standard sea-level pressure in Pa and in Psi.
Pressures == {Dec(101325, 0), Dec(14696, -3)}

\* Vapor pressures below, inside and above the accepted range of either system.
VapPress ==
  {Dec(-1, 0), Zero, Dec(1, -7), Dec(1, -3), Dec(3, -1), Dec(300, 0), Dec(1000, 0),
   Dec(2, 6)}

Altitudes == {Dec(-500, 0), Zero, Dec(1000, 0), Dec(50000, 0), Dec(200000, 0)}

----------------------------------------------------------------------------
(* Init and the calls.                                                     *)

NoCall ==
  [op |-> "none", args |-> <<>>, ret |-> Ok(NoneResult), iters |-> 0, coef |-> "none",
   src |-> <<>>]

\* No other thread is inside SetUnitSystem; calls counts the calls other
\* threads have made.
NoSetter == [pc |-> "idle", Units |-> None, calls |-> 0]

\* No solver call is inside its loop.
NoFrame == [fn |-> "none", args |-> <<>>, p |-> <<>>, s |-> <<>>]

Init ==
  /\ UNITS = None
  /\ TOL = One
  /\ lastValid = None
  /\ call = NoCall
  /\ frame = NoFrame
  /\ passes = 0
  /\ setter = NoSetter

\* def SetUnitSystem(Units)
SetUnitSystem ==
  /\ call.op = "none"
  /\ frame = NoFrame
  /\ \E Units \in UnitArgs :
       LET r == SetUnitSystemDo(Units)
       IN /\ UNITS' = r.units
          /\ TOL' = r.tol
          /\ lastValid' = IF r.ret.ok THEN Units ELSE lastValid
          /\ call' = [op |-> "SetUnitSystem", args |-> <<Units>>, ret |-> r.ret,
                      iters |-> 0, coef |-> "none", src |-> <<>>]
          /\ UNCHANGED <<frame, passes, setter>>

\* A call that clears the unit selection when it raises.
ReturnsClearing(op, args, ret, iters, coef) ==
  /\ call.op = "none"
  /\ frame = NoFrame
  /\ call' = [op |-> op, args |-> args, ret |-> ret, iters |-> iters, coef |-> coef,
              src |-> <<>>]
  /\ UNITS' = IF ret.ok THEN UNITS ELSE None
  /\ TOL' = IF ret.ok THEN TOL ELSE One
  /\ UNCHANGED <<lastValid, frame, passes, setter>>

\* A call of a function that has no global statement: it returns or raises,
\* and the module's globals stay as they are.
Returns(op, args, ret, iters, coef) ==
  /\ call.op = "none"
  /\ frame = NoFrame
  /\ call' = [op |-> op, args |-> args, ret |-> ret, iters |-> iters, coef |-> coef,
              src |-> <<>>]
  /\ UNCHANGED <<UNITS, TOL, lastValid, frame, passes, setter>>

Formula(op, args) == Returns(op, args, Call(op, args), 0, "none")

CallGetUnitSystem ==
  Formula("GetUnitSystem", <<>>)

CallisIP ==
  Formula("isIP", <<>>)

CallGetTRankineFromTFahrenheit ==
  \E T \in RangeTemps :
    Returns("GetTRankineFromTFahrenheit", <<T>>, Ok(Call("GetTRankineFromTFahrenheit", <<T>>)), 0, "none")

CallGetTKelvinFromTCelsius ==
  \E T \in RangeTemps :
    Returns("GetTKelvinFromTCelsius", <<T>>, Ok(Call("GetTKelvinFromTCelsius", <<T>>)), 0, "none")

CallGetSatVapPres ==
  \E T \in RangeTemps :
    LET r == Call("GetSatVapPresRun", <<T>>)
    IN Returns("GetSatVapPres", <<T>>, r.ret, 0, r.coef)

CallGetVapPresFromTDewPoint ==
  \E T \in RangeTemps :
    Formula("GetVapPresFromTDewPoint", <<T>>)

CallGetTDewPointFromVapPres ==
  \E T \in DryBulbs, VP \in VapPress :
    LET r == Call("GetTDewPointFromVapPresRun", <<T, VP>>)
    IN Returns("GetTDewPointFromVapPres", <<T, VP>>, r.ret, r.iters, "none")

CallGetVapPresFromRelHum ==
  \E T \in DryBulbs, RH \in RelHums :
    Formula("GetVapPresFromRelHum", <<T, RH>>)

CallGetRelHumFromVapPres ==
  \E T \in DryBulbs, VP \in VapPress :
    Formula("GetRelHumFromVapPres", <<T, VP>>)

CallGetTDewPointFromRelHum ==
  \E T \in DryBulbs, RH \in RelHums :
    Formula("GetTDewPointFromRelHum", <<T, RH>>)

CallGetRelHumFromTDewPoint ==
  \E T \in PairTemps, TDP \in PairTemps :
    Formula("GetRelHumFromTDewPoint", <<T, TDP>>)

CallGetHumRatioFromVapPres ==
  \E VP \in VapPress, P \in Pressures :
    Formula("GetHumRatioFromVapPres", <<VP, P>>)

CallGetVapPresFromHumRatio ==
  \E W \in HumRatios, P \in Pressures :
    Formula("GetVapPresFromHumRatio", <<W, P>>)

CallGetSatHumRatio ==
  \E T \in DryBulbs, P \in Pressures :
    Formula("GetSatHumRatio", <<T, P>>)

CallGetHumRatioFromTDewPoint ==
  \E T \in DryBulbs, P \in Pressures :
    Formula("GetHumRatioFromTDewPoint", <<T, P>>)

CallGetTWetBulbFromTDewPoint ==
  \E T \in PairTemps, TDP \in PairTemps, P \in Pressures :
    Formula("GetTWetBulbFromTDewPoint", <<T, TDP, P>>)

CallGetRelHumFromTWetBulb ==
  \E T \in PairTemps, TWB \in PairTemps, P \in Pressures :
    Formula("GetRelHumFromTWetBulb", <<T, TWB, P>>)

CallGetTDewPointFromTWetBulb ==
  \E T \in PairTemps, TWB \in PairTemps, P \in Pressures :
    Formula("GetTDewPointFromTWetBulb", <<T, TWB, P>>)

CallGetHumRatioFromTWetBulb ==
  \E T \in PairTemps, TWB \in PairTemps, P \in Pressures :
    Formula("GetHumRatioFromTWetBulb", <<T, TWB, P>>)

CallCalcPsychrometricsFromTWetBulb ==
  \E T \in PairTemps, TWB \in PairTemps, P \in Pressures :
    Formula("CalcPsychrometricsFromTWetBulb", <<T, TWB, P>>)

CallCalcPsychrometricsFromTDewPoint ==
  \E T \in PairTemps, TDP \in PairTemps, P \in Pressures :
    Formula("CalcPsychrometricsFromTDewPoint", <<T, TDP, P>>)

CallGetTWetBulbFromRelHum ==
  \E T \in DryBulbs, RH \in RelHums, P \in Pressures :
    Formula("GetTWetBulbFromRelHum", <<T, RH, P>>)

CallGetHumRatioFromRelHum ==
  \E T \in DryBulbs, RH \in RelHums, P \in Pressures :
    Formula("GetHumRatioFromRelHum", <<T, RH, P>>)

CallCalcPsychrometricsFromRelHum ==
  \E T \in DryBulbs, RH \in RelHums, P \in Pressures :
    Formula("CalcPsychrometricsFromRelHum", <<T, RH, P>>)

CallGetTWetBulbFromHumRatio ==
  \E T \in DryBulbs, W \in HumRatios, P \in Pressures :
    LET r == Call("GetTWetBulbFromHumRatioRun", <<T, W, P>>)
    IN Returns("GetTWetBulbFromHumRatio", <<T, W, P>>, r.ret, r.iters, "none")

CallGetRelHumFromHumRatio ==
  \E T \in DryBulbs, W \in HumRatios, P \in Pressures :
    Formula("GetRelHumFromHumRatio", <<T, W, P>>)

CallGetTDewPointFromHumRatio ==
  \E T \in DryBulbs, W \in HumRatios, P \in Pressures :
    Formula("GetTDewPointFromHumRatio", <<T, W, P>>)

CallGetVaporPressureDeficit ==
  \E T \in DryBulbs, W \in HumRatios, P \in Pressures :
    Formula("GetVaporPressureDeficit", <<T, W, P>>)

CallGetDegreeOfSaturation ==
  \E T \in DryBulbs, W \in HumRatios, P \in Pressures :
    Formula("GetDegreeOfSaturation", <<T, W, P>>)

CallGetMoistAirVolume ==
  \E T \in DryBulbs, W \in HumRatios, P \in Pressures :
    Formula("GetMoistAirVolume", <<T, W, P>>)

CallGetMoistAirDensity ==
  \E T \in DryBulbs, W \in HumRatios, P \in Pressures :
    Formula("GetMoistAirDensity", <<T, W, P>>)

CallGetMoistAirEnthalpy ==
  \E T \in DryBulbs, W \in HumRatios :
    Formula("GetMoistAirEnthalpy", <<T, W>>)

CallGetDryAirEnthalpy ==
  \E T \in DryBulbs :
    Formula("GetDryAirEnthalpy", <<T>>)

CallGetDryAirDensity ==
  \E T \in DryBulbs, P \in Pressures :
    Formula("GetDryAirDensity", <<T, P>>)

CallGetDryAirVolume ==
  \E T \in DryBulbs, P \in Pressures :
    Formula("GetDryAirVolume", <<T, P>>)

CallGetSatAirEnthalpy ==
  \E T \in DryBulbs, P \in Pressures :
    Formula("GetSatAirEnthalpy", <<T, P>>)

CallGetStandardAtmPressure ==
  \E Altitude \in Altitudes :
    Formula("GetStandardAtmPressure", <<Altitude>>)

CallGetStandardAtmTemperature ==
  \E Altitude \in Altitudes :
    Formula("GetStandardAtmTemperature", <<Altitude>>)

CallGetSeaLevelPressure ==
  \E P \in Pressures, Altitude \in Altitudes, T \in DryBulbs :
    Formula("GetSeaLevelPressure", <<P, Altitude, T>>)

CallGetStationPressure ==
  \E P \in Pressures, Altitude \in Altitudes, T \in DryBulbs :
    Formula("GetStationPressure", <<P, Altitude, T>>)

\* The caller passes the dew point GetTDewPointFromRelHum returned, with the
\* same dry-bulb temperature, to GetRelHumFromTDewPoint; src keeps the
\* arguments of the first call.
ThenGetRelHumFromTDewPoint ==
  /\ call.op = "GetTDewPointFromRelHum"
  /\ call.ret.ok
  /\ \E r \in {Call("GetRelHumFromTDewPoint", <<call.args[1], call.ret.val>>)} :
       call' = [op |-> "GetRelHumFromTDewPoint",
                args |-> <<call.args[1], call.ret.val>>, ret |-> r,
                iters |-> 0, coef |-> "none", src |-> call.args]
  /\ UNCHANGED <<UNITS, TOL, lastValid, frame, passes, setter>>

\* The caller passes the wet-bulb temperature GetTWetBulbFromHumRatio
\* returned, with the same dry-bulb temperature and pressure, to
\* GetHumRatioFromTWetBulb.
ThenGetHumRatioFromTWetBulb ==
  /\ call.op = "GetTWetBulbFromHumRatio"
  /\ call.ret.ok
  /\ \E r \in {Call("GetHumRatioFromTWetBulb",
                    <<call.args[1], call.ret.val, call.args[3]>>)} :
       call' = [op |-> "GetHumRatioFromTWetBulb",
                args |-> <<call.args[1], call.ret.val, call.args[3]>>, ret |-> r,
                iters |-> 0, coef |-> "none", src |-> call.args]
  /\ UNCHANGED <<UNITS, TOL, lastValid, frame, passes, setter>>

\* The caller is done with the outcome of the call.
Return ==
  /\ call.op # "none"
  /\ call' = NoCall
  /\ UNCHANGED <<UNITS, TOL, lastValid, frame, passes, setter>>

Next ==
  \/ SetUnitSystem
  \/ Return
  \/ CallGetUnitSystem
  \/ CallisIP
  \/ CallGetTRankineFromTFahrenheit
  \/ CallGetTKelvinFromTCelsius
  \/ CallGetSatVapPres
  \/ CallGetVapPresFromTDewPoint
  \/ CallGetTDewPointFromVapPres
  \/ CallGetVapPresFromRelHum
  \/ CallGetRelHumFromVapPres
  \/ CallGetTDewPointFromRelHum
  \/ CallGetRelHumFromTDewPoint
  \/ CallGetHumRatioFromVapPres
  \/ CallGetVapPresFromHumRatio
  \/ CallGetSatHumRatio
  \/ CallGetHumRatioFromTDewPoint
  \/ CallGetTWetBulbFromTDewPoint
  \/ CallGetRelHumFromTWetBulb
  \/ CallGetTDewPointFromTWetBulb
  \/ CallGetHumRatioFromTWetBulb
  \/ CallCalcPsychrometricsFromTWetBulb
  \/ CallCalcPsychrometricsFromTDewPoint
  \/ CallGetTWetBulbFromRelHum
  \/ CallGetHumRatioFromRelHum
  \/ CallCalcPsychrometricsFromRelHum
  \/ CallGetTWetBulbFromHumRatio
  \/ CallGetRelHumFromHumRatio
  \/ CallGetTDewPointFromHumRatio
  \/ CallGetVaporPressureDeficit
  \/ CallGetDegreeOfSaturation
  \/ CallGetMoistAirVolume
  \/ CallGetMoistAirDensity
  \/ CallGetMoistAirEnthalpy
  \/ CallGetDryAirEnthalpy
  \/ CallGetDryAirDensity
  \/ CallGetDryAirVolume
  \/ CallGetSatAirEnthalpy
  \/ CallGetStandardAtmPressure
  \/ CallGetStandardAtmTemperature
  \/ CallGetSeaLevelPressure
  \/ CallGetStationPressure
  \/ ThenGetRelHumFromTDewPoint
  \/ ThenGetHumRatioFromTWetBulb

Spec == Init /\ [][Next]_vars

----------------------------------------------------------------------------
(* The two iterative solvers, one pass of the while loop at a time.        *)

\* Dry-bulb temperatures at the ends of both fitted ranges, at both freezing
\* points and in between: -148, -100, -5, 0, 25, 32, 77, 200, 392.
SolverTemps ==
  {[m |-> -14800000, e |-> -5], [m |-> -10000000, e |-> -5], [m |-> -50000000, e |-> -7],
   Zero, [m |-> 25000000, e |-> -6], [m |-> 32000000, e |-> -6], [m |-> 77000000, e |-> -6],
   [m |-> 20000000, e |-> -5], [m |-> 39200000, e |-> -5]}

\* Vapor pressures next to the lower end of the accepted range, between the
\* two saturation pressures the code computes at the freezing point (SI:
\* 611.18 Pa, IP: 0.088645 Psi), and elsewhere in and out of the range:
\* -1, 0.0015, 0.088645, 0.3, 100, 611.18, 1000, 1500000.
SolverVapPress ==
  {[m |-> -10000000, e |-> -7], [m |-> 15000000, e |-> -10], [m |-> 88645000, e |-> -9],
   [m |-> 30000000, e |-> -8], [m |-> 10000000, e |-> -5], [m |-> 61118000, e |-> -5],
   [m |-> 10000000, e |-> -4], [m |-> 15000000, e |-> -1]}

\* Humidity ratios -0.01, 0, 0.001, 0.01, 0.2.
SolverHumRatios ==
  {[m |-> -10000000, e |-> -9], Zero, [m |-> 10000000, e |-> -10],
   [m |-> 10000000, e |-> -9], [m |-> 20000000, e |-> -8]}

\* GetTDewPointFromVapPres is called and runs up to its while loop.
EnterGetTDewPointFromVapPres ==
  /\ call.op = "none"
  /\ frame = NoFrame
  /\ \E T \in SolverTemps, VP \in SolverVapPress :
       \E e \in {Call("NREnter", <<T, VP>>)} :
         IF e.entered
         THEN /\ frame' = [fn |-> "GetTDewPointFromVapPres", args |-> <<T, VP>>,
                           p |-> e.p, s |-> NRStart(T)]
              /\ UNCHANGED call
         ELSE /\ call' = [op |-> "GetTDewPointFromVapPres", args |-> <<T, VP>>,
                          ret |-> e.ret, iters |-> 0, coef |-> "none", src |-> <<>>]
              /\ UNCHANGED frame
  /\ UNCHANGED <<UNITS, TOL, lastValid, passes, setter>>

\* One pass of the while True loop; when the loop is left the function
\* returns or raises.  No pass is made after MaxNRIter passes.
NRPass ==
  /\ frame.fn = "GetTDewPointFromVapPres"
  /\ frame.s.iters < MaxNRIter
  /\ \E s \in {Call("NRStep", <<frame.s, frame.p>>)} :
       IF s.left
       THEN /\ call' = [op |-> "GetTDewPointFromVapPres", args |-> frame.args,
                        ret |-> Call("NRExit", <<s, frame.args[1]>>), iters |-> s.iters,
                        coef |-> "none", src |-> <<>>]
            /\ frame' = NoFrame
            /\ passes' = 0
       ELSE /\ frame' = [frame EXCEPT !.s = s]
            /\ passes' = passes + 1
            /\ UNCHANGED call
  /\ UNCHANGED <<UNITS, TOL, lastValid, setter>>

\* GetTWetBulbFromHumRatio is called and runs up to its while loop.
EnterGetTWetBulbFromHumRatio ==
  /\ call.op = "none"
  /\ frame = NoFrame
  /\ \E T \in SolverTemps, W \in SolverHumRatios, P \in Pressures :
       \E e \in {Call("BisectEnter", <<T, W, P>>)} :
         IF e.entered
         THEN /\ frame' = [fn |-> "GetTWetBulbFromHumRatio", args |-> <<T, W, P>>,
                           p |-> [TDewPoint |-> e.ret.val], s |-> e.s]
              /\ UNCHANGED call
         ELSE /\ call' = [op |-> "GetTWetBulbFromHumRatio", args |-> <<T, W, P>>,
                          ret |-> e.ret, iters |-> 0, coef |-> "none", src |-> <<>>]
              /\ UNCHANGED frame
  /\ UNCHANGED <<UNITS, TOL, lastValid, passes, setter>>

\* The test of the while loop and, when it passes, one pass of its body; when
\* the loop is left the function returns or raises.  No pass is made after
\* MaxBisect passes.
BisectPass ==
  /\ frame.fn = "GetTWetBulbFromHumRatio"
  /\ frame.s.iters <= MaxBisect
  /\ \E s \in {Call("BisectStep", <<frame.s, frame.args[1], frame.args[2], frame.args[3]>>)} :
       IF s.left
       THEN /\ call' = [op |-> "GetTWetBulbFromHumRatio", args |-> frame.args,
                        ret |-> s.ret, iters |-> s.iters, coef |-> "none",
                        src |-> <<>>]
            /\ frame' = NoFrame
            /\ passes' = 0
       ELSE /\ frame' = [frame EXCEPT !.s = s]
            /\ passes' = passes + 1
            /\ UNCHANGED call
  /\ UNCHANGED <<UNITS, TOL, lastValid, setter>>

SolverNext ==
  \/ SetUnitSystem
  \/ Return
  \/ EnterGetTDewPointFromVapPres
  \/ NRPass
  \/ EnterGetTWetBulbFromHumRatio
  \/ BisectPass

\* The loop of the solver call in progress completes one more pass.  The
\* model lets the Newton-Raphson loop start MaxNRIter passes and the
\* bisection loop MaxBisect + 1.
LoopRuns ==
  /\ \/ frame.fn = "GetTDewPointFromVapPres" /\ frame.s.iters < MaxNRIter
     \/ frame.fn = "GetTWetBulbFromHumRatio" /\ frame.s.iters <= MaxBisect
  /\ passes' = passes + 1

\* A call that is inside its loop goes on running: the interpreter executes
\* the next pass, so the loop does not stay forever where it can complete
\* one without either completing it or being left.
SolverSpec ==
  Init /\ [][SolverNext]_vars /\ WF_passes(LoopRuns)

----------------------------------------------------------------------------
(* Callers in two threads of one interpreter: one calls SetUnitSystem, the *)
(* other GetTDewPointFromVapPres.  A step of a thread is one load or one   *)
(* store of a global, with the computation on locals that follows it.      *)

\* The calls of SetUnitSystem the model lets the first thread make.
MaxSetCalls == 2

ThreadUnitArgs == {IP, SI, "'SI'"}

\* A dry-bulb temperature of 25.
ThreadTemps == {[m |-> 25000000, e |-> -6]}

\* Vapor pressures of 0.3 and 1000.
ThreadVapPress == {[m |-> 30000000, e |-> -8], [m |-> 10000000, e |-> -4]}

\* SetUnitSystem returning once it has stored __UNITS.
ReturnsAfterUnitsStored == "idle"

\* Where SetUnitSystem is once it has stored __UNITS: before the store of
\* __TOL.
AfterUnitsStored == "tol"

\* A thread calls SetUnitSystem(Units): the isinstance test, which raises or
\* leads to the store of __UNITS.  A call of GetTDewPointFromVapPres that is
\* in progress in the other thread has then run beside a SetUnitSystem call.
ThreadSetUnitSystem ==
  /\ setter.pc = "idle"
  /\ setter.calls < MaxSetCalls
  /\ \E Units \in ThreadUnitArgs :
       setter' = IF Units \in UnitSystem
                 THEN [pc |-> "units", Units |-> Units, calls |-> setter.calls + 1]
                 ELSE [pc |-> "idle", Units |-> None, calls |-> setter.calls + 1]
  /\ frame' = IF frame = NoFrame THEN frame ELSE [frame EXCEPT !.s.raced = TRUE]
  /\ UNCHANGED <<UNITS, TOL, lastValid, call, passes>>

\* __UNITS = Units
ThreadStoreUnits ==
  /\ setter.pc = "units"
  /\ UNITS' = setter.Units
  /\ setter' = IF AfterUnitsStored = "idle"
               THEN [setter EXCEPT !.pc = "idle", !.Units = None]
               ELSE [setter EXCEPT !.pc = AfterUnitsStored]
  /\ UNCHANGED <<TOL, lastValid, call, frame, passes>>

\* __TOL = 0.001 * 9 / 5 or __TOL = 0.001, and the call returns.
ThreadStoreTol ==
  /\ setter.pc = "tol"
  /\ TOL' = TolOf(setter.Units)
  /\ lastValid' = setter.Units
  /\ setter' = [setter EXCEPT !.pc = "idle", !.Units = None]
  /\ UNCHANGED <<UNITS, call, frame, passes>>

\* A call of GetTDewPointFromVapPres is in progress in the second thread.
InThreadCall == frame.fn = "GetTDewPointFromVapPres"

\* The second thread calls GetTDewPointFromVapPres(TDryBulb, VapPres): it is
\* at its first call of isIP.  pc is the global access it is at (IP and SI:
\* the two comparisons of __UNITS in isIP; TOL: the loop's test), site the
\* place isIP is called from, seenUnits and seenTol what it has loaded from
\* __UNITS and __TOL so far.
ThreadGetTDewPointFromVapPres ==
  /\ call.op = "none"
  /\ frame = NoFrame
  /\ \E TDryBulb \in ThreadTemps, VapPres \in ThreadVapPress :
       frame' = [fn |-> "GetTDewPointFromVapPres", args |-> <<TDryBulb, VapPres>>,
                 p |-> <<>>,
                 s |-> [pc |-> "IP", site |-> "bounds", TDewPoint |-> TDryBulb,
                        TDewPoint_iter |-> TDryBulb, lnVP |-> Zero, lnVP_iter |-> Zero,
                        iters |-> 0, ret |-> Ok(TDryBulb), seenUnits |-> {},
                        seenTol |-> {}, raced |-> setter.pc # "idle"]]
  /\ UNCHANGED <<UNITS, TOL, lastValid, call, passes, setter>>

\* isIP at `if __UNITS == IP`: __UNITS is loaded; isIP returns True, or goes
\* on to its second comparison.  No pass of the loop is started after
\* MaxNRIter passes.
ThreadLoadUnitsIP ==
  /\ InThreadCall
  /\ frame.s.pc = "IP"
  /\ frame.s.iters < MaxNRIter
  /\ \E f \in {[frame EXCEPT !.s.seenUnits = @ \cup {UNITS}]} :
       frame' = IF UNITS = IP THEN Call("ThreadAfterIsIP", <<f>>)
                ELSE [f EXCEPT !.s.pc = "SI"]
  /\ UNCHANGED <<UNITS, TOL, lastValid, call, passes, setter>>

\* isIP at `elif __UNITS == SI`: __UNITS is loaded again; isIP returns False
\* or raises.
ThreadLoadUnitsSI ==
  /\ InThreadCall
  /\ frame.s.pc = "SI"
  /\ \E f \in {[frame EXCEPT !.s.seenUnits = @ \cup {UNITS}]} :
       frame' = IF UNITS = SI THEN Call("ThreadAfterIsIP", <<f>>)
                ELSE ThreadDone(f, Raise(ValueError, MsgNoUnits))
  /\ UNCHANGED <<UNITS, TOL, lastValid, call, passes, setter>>

\* `if math.fabs(TDewPoint - TDewPoint_iter) <= __TOL`: __TOL is loaded; the
\* loop is left for the last two lines of the function, or starts over.
ThreadLoadTol ==
  /\ InThreadCall
  /\ frame.s.pc = "TOL"
  /\ frame' =
       IF FLe(FAbs(FSub(frame.s.TDewPoint, frame.s.TDewPoint_iter)), TOL)
       THEN [frame EXCEPT !.s.seenTol = @ \cup {TOL}, !.s.iters = @ + 1,
                          !.s.pc = "done",
                          !.s.ret = Ok(FMin(frame.s.TDewPoint, frame.args[1]))]
       ELSE [frame EXCEPT !.s.seenTol = @ \cup {TOL}, !.s.iters = @ + 1,
                          !.s.pc = "IP", !.s.site = "iter"]
  /\ UNCHANGED <<UNITS, TOL, lastValid, call, passes, setter>>

\* The call in the second thread returns or raises.
ThreadReturns ==
  /\ InThreadCall
  /\ frame.s.pc = "done"
  /\ call' = [op |-> "GetTDewPointFromVapPres", args |-> frame.args,
              ret |-> frame.s.ret, iters |-> frame.s.iters, coef |-> "none",
              src |-> <<>>]
  /\ frame' = NoFrame
  /\ UNCHANGED <<UNITS, TOL, lastValid, passes, setter>>

ThreadNext ==
  \/ ThreadSetUnitSystem
  \/ ThreadStoreUnits
  \/ ThreadStoreTol
  \/ ThreadGetTDewPointFromVapPres
  \/ ThreadLoadUnitsIP
  \/ ThreadLoadUnitsSI
  \/ ThreadLoadTol
  \/ ThreadReturns
  \/ Return

ThreadSpec == Init /\ [][ThreadNext]_vars

----------------------------------------------------------------------------
(* The claims.                                                             *)

\* The operations that compute a formula: every call but those of the
\* configuration functions.
IsFormulaCall == call.op \notin {"none", "SetUnitSystem", "GetUnitSystem", "isIP"}

\* 0.001 * 9 / 5 and 0.001, the tolerances of IP and of SI.
TolIP == [m |-> 18000000, e |-> -10]

TolSI == [m |-> 10000000, e |-> -10]

\* C1: a formula called while the unit system is still unset raises an
\* error; none returns a result.
C1_UnsetFormulaRaises ==
  (UNITS = None /\ IsFormulaCall) => ~call.ret.ok

C3_LatestValidSelection ==
  lastValid # None =>
    /\ UNITS = lastValid
    /\ TOL = IF lastValid = IP THEN TolIP ELSE TolSI
    /\ (call.op = "GetUnitSystem" => call.ret = Ok(lastValid))

\* GetUnitSystem called after SI was selected.
C3_Witness ==
  /\ lastValid = SI
  /\ call.op = "GetUnitSystem"
  /\ call.ret.ok

\* C4: GetUnitSystem returns the selection when one has been made and raises
\* when none has.
C4_GetUnitSystemRaisesWhenUnset ==
  call.op = "GetUnitSystem" =>
    IF UNITS = None THEN ~call.ret.ok ELSE call.ret = Ok(UNITS)

\* C5: a step changes the unit system or the tolerance only if it is a
\* SetUnitSystem call that returns.
C5_OnlySetUnitSystemWrites ==
  [][(UNITS' # UNITS \/ TOL' # TOL)
     => (call'.op = "SetUnitSystem" /\ call'.ret.ok)]_vars

\* The iterative dew-point solver has run and raised or returned under IP;
\* IP and its tolerance are still there.
C5_Witness ==
  /\ call.op = "GetTDewPointFromVapPres"
  /\ call.iters > 0
  /\ UNITS = IP
  /\ TOL = TolIP

\* The operations that take a dry-bulb temperature (first argument) with a
\* wet-bulb or dew-point temperature (second argument).
TwoTemperatureOps ==
  {"GetTWetBulbFromTDewPoint", "GetRelHumFromTDewPoint", "GetRelHumFromTWetBulb",
   "GetTDewPointFromTWetBulb", "GetHumRatioFromTWetBulb",
   "CalcPsychrometricsFromTWetBulb", "CalcPsychrometricsFromTDewPoint"}

\* C6: each of the seven operations raises ValueError when the wet-bulb or
\* dew-point temperature exceeds the dry-bulb temperature.
C6_AboveDryBulbRejected ==
  (call.op \in TwoTemperatureOps /\ FGt(call.args[2], call.args[1]))
    => (~call.ret.ok /\ call.ret.exc = ValueError)

\* The operations whose second argument is a relative humidity.
RelHumOps ==
  {"GetTWetBulbFromRelHum", "GetTDewPointFromRelHum", "GetVapPresFromRelHum",
   "GetHumRatioFromRelHum", "CalcPsychrometricsFromRelHum"}

\* C7: each of the five operations raises ValueError for a relative humidity
\* below 0 or above 1, and its range check lets 0 and 1 through.
C7_RelHumRangeChecked ==
  call.op \in RelHumOps =>
    /\ (FLt(call.args[2], Zero) \/ FGt(call.args[2], One))
         => (~call.ret.ok /\ call.ret.exc = ValueError
               /\ call.ret.msg = MsgRelHumRange)
    /\ (call.args[2] = Zero \/ call.args[2] = One)
         => call.ret.msg # MsgRelHumRange

\* A relative humidity of exactly 1 is accepted.
C7_Witness ==
  /\ call.op = "GetVapPresFromRelHum"
  /\ call.args[2] = One
  /\ call.ret.ok

\* The operations that take a humidity ratio, and the humidity ratio passed.
HumRatioOps ==
  {"GetTWetBulbFromHumRatio", "GetRelHumFromHumRatio", "GetTDewPointFromHumRatio",
   "GetVapPresFromHumRatio", "GetVaporPressureDeficit", "GetDegreeOfSaturation",
   "GetMoistAirEnthalpy", "GetMoistAirVolume", "GetMoistAirDensity"}

HumRatioArg == IF call.op = "GetVapPresFromHumRatio" THEN call.args[1] ELSE call.args[2]

\* C8: each of the nine operations raises the negative-humidity-ratio
\* ValueError for a negative humidity ratio, whatever the unit system (even
\* unset) and the other arguments are, and before any loop pass.
C8_NegativeHumRatioRejectedFirst ==
  (call.op \in HumRatioOps /\ FLt(HumRatioArg, Zero))
    => /\ ~call.ret.ok
       /\ call.ret.exc = ValueError
       /\ call.ret.msg \in {MsgHumRatioNeg1, MsgHumRatioNeg2}
       /\ call.iters = 0

\* A negative humidity ratio passed while the unit system is unset, with a
\* dry-bulb temperature outside both fitted ranges.
C8_Witness ==
  /\ UNITS = None
  /\ call.op = "GetMoistAirEnthalpy"
  /\ FLt(call.args[2], Zero)
  /\ FGt(call.args[1], Dec(392, 0))
  /\ ~call.ret.ok

\* C9: with a unit system selected, GetSatVapPres raises ValueError exactly
\* for a temperature outside [-100, 200] (SI) or [-148, 392] (IP), and it
\* uses the coefficients over ice iff the temperature is at or below 0 (SI)
\* or 32 (IP).
C9_SatVapPresRange ==
  (call.op = "GetSatVapPres" /\ UNITS # None) =>
    LET T  == call.args[1]
        lo == IF UNITS = IP THEN Dec(-148, 0) ELSE Dec(-100, 0)
        hi == IF UNITS = IP THEN Dec(392, 0) ELSE Dec(200, 0)
        fr == IF UNITS = IP THEN Dec(32, 0) ELSE Zero
    IN /\ ~call.ret.ok <=> (FLt(T, lo) \/ FGt(T, hi))
       /\ ~call.ret.ok => call.ret.exc = ValueError
       /\ call.ret.ok => (call.coef = "ice" <=> FLe(T, fr))

\* The saturation pressure at exactly the freezing point of SI, computed
\* with the coefficients over ice.
C9_Witness ==
  /\ UNITS = SI
  /\ call.op = "GetSatVapPres"
  /\ call.args[1] = Zero
  /\ call.ret.ok
  /\ call.coef = "ice"

\* C10: with a unit system selected, GetTDewPointFromVapPres raises the
\* out-of-range ValueError, without a loop pass, for a vapor pressure below
\* the saturation pressure at the lower bound or above the one at the upper
\* bound, so for every negative vapor pressure.
C10_VapPresRangeChecked ==
  (call.op = "GetTDewPointFromVapPres" /\ UNITS # None) =>
    LET VP  == call.args[2]
        slo == Call("GetSatVapPres", <<IF UNITS = IP THEN Dec(-148, 0) ELSE Dec(-100, 0)>>)
        shi == Call("GetSatVapPres", <<IF UNITS = IP THEN Dec(392, 0) ELSE Dec(200, 0)>>)
    IN (FLt(VP, Zero) \/ FLt(VP, slo.val) \/ FGt(VP, shi.val))
         => /\ ~call.ret.ok
            /\ call.ret.exc = ValueError
            /\ call.ret.msg = MsgVapPresRange
            /\ call.iters = 0

\* A vapor pressure above the saturation pressure at 200 C, rejected.
C10_Witness ==
  /\ UNITS = SI
  /\ call.op = "GetTDewPointFromVapPres"
  /\ FGt(call.args[2], Dec(16, 5))
  /\ ~call.ret.ok
  /\ call.iters = 0

\* A dry-bulb temperature within the bounds of the selected unit system.
ValidDryBulb(T) ==
  /\ UNITS # None
  /\ FGe(T, IF UNITS = IP THEN Dec(-148, 0) ELSE Dec(-100, 0))
  /\ FLe(T, IF UNITS = IP THEN Dec(392, 0) ELSE Dec(200, 0))

\* a and b differ by at most tol.
Within(a, b, tol) == FLe(FSub(a, b), tol) /\ FLe(FSub(b, a), tol)

\* C11: for a valid dry-bulb temperature and a relative humidity in [0, 1],
\* end points included, GetTDewPointFromRelHum returns a dew point, and
\* GetRelHumFromTDewPoint of that dew point returns the relative humidity
\* within the tolerance.
C11_RelHumRoundTrip ==
  /\ (/\ call.op = "GetTDewPointFromRelHum"
      /\ ValidDryBulb(call.args[1])
      /\ FLe(Zero, call.args[2]) /\ FLe(call.args[2], One))
       => call.ret.ok
  /\ (call.op = "GetRelHumFromTDewPoint" /\ call.src # <<>>)
       => (call.ret.ok /\ Within(call.ret.val, call.src[2], TOL))

\* C12: for a valid dry-bulb temperature, a pressure and a humidity ratio
\* >= 0, zero included, GetTWetBulbFromHumRatio returns a wet-bulb
\* temperature, and GetHumRatioFromTWetBulb of that wet bulb returns the
\* humidity ratio within the tolerance.
C12_HumRatioRoundTrip ==
  /\ (/\ call.op = "GetTWetBulbFromHumRatio"
      /\ ValidDryBulb(call.args[1])
      /\ FGe(call.args[2], Zero))
       => call.ret.ok
  /\ (call.op = "GetHumRatioFromTWetBulb" /\ call.src # <<>>)
       => (call.ret.ok /\ Within(call.ret.val, call.src[2], TOL))

\* C13: the dew point GetTDewPointFromVapPres returns never exceeds the
\* dry-bulb temperature passed, in either unit system.
C13_DewPointAtMostDryBulb ==
  (call.op = "GetTDewPointFromVapPres" /\ call.ret.ok)
    => FLe(call.ret.val, call.args[1])

\* A vapor pressure above saturation at the dry bulb: the loop ran and the
\* dry bulb itself is returned.
C13_Witness ==
  /\ call.op = "GetTDewPointFromVapPres"
  /\ call.ret.ok
  /\ call.iters > 0
  /\ call.ret.val = call.args[1]
  /\ FGt(call.args[2], Call("GetSatVapPres", <<call.args[1]>>).val)

\* The operations that return a relative humidity.
RelHumResultOps ==
  {"GetRelHumFromVapPres", "GetRelHumFromHumRatio",
   "GetRelHumFromTDewPoint", "GetRelHumFromTWetBulb"}

\* C14: every relative humidity returned by the four operations lies in
\* [0, 1].
C14_RelHumInUnitRange ==
  (call.op \in RelHumResultOps /\ call.ret.ok)
    => (FGe(call.ret.val, Zero) /\ FLe(call.ret.val, One))

\* C15: for a vapor pressure >= 0, every humidity ratio returned by
\* GetHumRatioFromVapPres and GetSatHumRatio is >= 0.
C15_HumRatioNonNegative ==
  /\ (call.op = "GetHumRatioFromVapPres" /\ FGe(call.args[1], Zero) /\ call.ret.ok)
       => FGe(call.ret.val, Zero)
  /\ (call.op = "GetSatHumRatio" /\ call.ret.ok)
       => FGe(call.ret.val, Zero)

\* C16: for a valid dry-bulb temperature, GetVapPresFromRelHum returns
\* exactly 0 at a relative humidity of exactly 0 and exactly
\* GetSatVapPres of the temperature at a relative humidity of exactly 1.
C16_VapPresAtRelHumEnds ==
  (call.op = "GetVapPresFromRelHum" /\ ValidDryBulb(call.args[1])) =>
    /\ call.args[2] = Zero => (call.ret.ok /\ call.ret.val = Zero)
    /\ call.args[2] = One
         => (call.ret.ok
               /\ call.ret.val = Call("GetSatVapPres", <<call.args[1]>>).val)

\* A relative humidity of exactly 0 giving a vapor pressure of exactly 0.
C16_Witness ==
  /\ call.op = "GetVapPresFromRelHum"
  /\ ValidDryBulb(call.args[1])
  /\ call.args[2] = Zero
  /\ call.ret.ok
  /\ call.ret.val = Zero

\* A call of GetTWetBulbFromHumRatio is inside its bisection loop.
InBisection == frame.fn = "GetTWetBulbFromHumRatio"

\* What the rounding of the 8-digit arithmetic can add to a width.
Rounding == [m |-> 10000000, e |-> -11]

\* A step taken inside the bisection loop: while the width of the interval
\* exceeds the tolerance a pass is made, after which twice the width is the
\* width before it, up to slack; once the width is at most the tolerance
\* the function returns.
BisectionHalves(slack) ==
  InBisection =>
    LET w == FSub(frame.s.TWetBulbSup, frame.s.TWetBulbInf)
    IN IF FGt(w, TOL)
       THEN /\ frame'.fn = "GetTWetBulbFromHumRatio"
            /\ frame'.s.iters = frame.s.iters + 1
            /\ Within(FMul(Two, FSub(frame'.s.TWetBulbSup, frame'.s.TWetBulbInf)),
                      w, slack)
       ELSE /\ frame' = NoFrame
            /\ call'.op = "GetTWetBulbFromHumRatio"
            /\ call'.ret.ok
            /\ call'.iters = frame.s.iters

\* C17 as stated: every bisection loop that is entered is left, within 100
\* passes, each pass exactly halving the width of the interval, the loop
\* being left once the width is at most the tolerance.
C17_ExactHalving ==
  /\ [](InBisection => frame.s.iters <= 100)
  /\ [][BisectionHalves(Zero)]_frame
  /\ InBisection ~> (frame = NoFrame)

\* C17: every bisection loop that is entered is left, within 100 passes,
\* each pass halving the width of the interval up to the rounding of the
\* floating-point arithmetic, the loop being left once the width is at most
\* the tolerance.
C17_BisectionTerminates ==
  /\ [](InBisection => frame.s.iters <= 100)
  /\ [][BisectionHalves(Rounding)]_frame
  /\ InBisection ~> (frame = NoFrame)

\* The loop was left after it had made ten passes or more.
C17_Witness ==
  /\ call.op = "GetTWetBulbFromHumRatio"
  /\ call.ret.ok
  /\ call.iters >= 10

\* The interval of the bisection and its midpoint are ordered between the
\* dew point and the dry bulb.
BisectionOrdered ==
  InBisection =>
    /\ FLe(frame.p.TDewPoint, frame.s.TWetBulbInf)
    /\ FLe(frame.s.TWetBulbInf, frame.s.TWetBulb)
    /\ FLe(frame.s.TWetBulb, frame.s.TWetBulbSup)
    /\ FLe(frame.s.TWetBulbSup, frame.args[1])
    /\ frame.s.TWetBulb = FDiv(FAdd(frame.s.TWetBulbInf, frame.s.TWetBulbSup), Two)

\* A pass of the bisection: the humidity ratio at the midpoint is computed
\* without an exception, and the midpoint becomes the upper bound when that
\* humidity ratio exceeds the target, the lower bound otherwise.
BisectionMovesBound ==
  (InBisection /\ frame'.fn = "GetTWetBulbFromHumRatio") =>
    LET Wstar == Call("GetHumRatioFromTWetBulb",
                      <<frame.args[1], frame.s.TWetBulb, frame.args[3]>>)
    IN /\ Wstar.ok
       /\ IF FGt(Wstar.val, frame.args[2])
          THEN /\ frame'.s.TWetBulbSup = frame.s.TWetBulb
               /\ frame'.s.TWetBulbInf = frame.s.TWetBulbInf
          ELSE /\ frame'.s.TWetBulbInf = frame.s.TWetBulb
               /\ frame'.s.TWetBulbSup = frame.s.TWetBulbSup

\* The bisection is left with a wet bulb between the dew point and the dry
\* bulb, never with an exception.
BisectionResult ==
  (InBisection /\ frame' = NoFrame) =>
    /\ call'.ret.ok
    /\ FLe(frame.p.TDewPoint, call'.ret.val)
    /\ FLe(call'.ret.val, frame.args[1])

\* C18: throughout the bisection dew point <= TWetBulbInf <= TWetBulb <=
\* TWetBulbSup <= dry bulb and TWetBulb is the midpoint; the midpoint
\* becomes the upper bound when its humidity ratio exceeds the target and
\* the lower bound otherwise; no evaluation at the midpoint raises, and the
\* wet bulb returned lies between the dew point and the dry bulb.
C18_BisectionBracket ==
  /\ []BisectionOrdered
  /\ [][BisectionMovesBound /\ BisectionResult]_vars

\* Both bounds of the interval have moved.
C18_Witness ==
  /\ InBisection
  /\ FLt(frame.p.TDewPoint, frame.s.TWetBulbInf)
  /\ FLt(frame.s.TWetBulbSup, frame.args[1])

\* A call of GetTDewPointFromVapPres is inside its Newton-Raphson loop.
InNewtonRaphson == frame.fn = "GetTDewPointFromVapPres"

\* C19: when the dry-bulb temperature lies within the validity bounds, the
\* estimate each pass of the loop starts from and that estimate plus the
\* finite-difference step lie within the bounds, and the call does not
\* raise the out-of-range temperature error.
C19_EstimatesWithinBounds ==
  /\ (InNewtonRaphson /\ ValidDryBulb(frame.args[1])) =>
       LET TDewPoint == frame.s.TDewPoint
           StepSize  == IF FGt(TDewPoint, frame.p.TMidPoint)
                        THEN FNeg(frame.p.STEPSIZE) ELSE frame.p.STEPSIZE
       IN ValidDryBulb(TDewPoint) /\ ValidDryBulb(FAdd(TDewPoint, StepSize))
  /\ (call.op = "GetTDewPointFromVapPres" /\ ValidDryBulb(call.args[1]))
       => call.ret.msg \notin {MsgTempRangeIP, MsgTempRangeSI}

\* An update that went below the lower bound and was clamped to it.
C19_Witness ==
  /\ InNewtonRaphson
  /\ ValidDryBulb(frame.args[1])
  /\ frame.s.iters > 0
  /\ frame.s.TDewPoint = frame.p.lo

ThreadSawOneConfiguration ==
  /\ Cardinality(frame.s.seenUnits) <= 1
  /\ \A u \in frame.s.seenUnits, t \in frame.s.seenTol : t = TolOf(u)

\* C21: SetUnitSystem stores the unit system and the tolerance in two
\* separate steps, no step storing both; and a call of
\* GetTDewPointFromVapPres that no SetUnitSystem call has run beside (every
\* SetUnitSystem call returned before it started) loads one unit system and
\* only the tolerance of that unit system from start to end.  That a call
\* run beside SetUnitSystem can load two unit systems, and a tolerance that
\* is not the one of a unit system it loaded, is the witness.
C21_SetUnitSystemNeedsCallerSynchronization ==
  /\ [][~(UNITS' # UNITS /\ TOL' # TOL)]_vars
  /\ []((InThreadCall /\ ~frame.s.raced) => ThreadSawOneConfiguration)

\* A call run beside SetUnitSystem that has loaded both unit systems, and
\* with IP the tolerance of SI or with SI the tolerance of IP.
C21_Witness ==
  /\ InThreadCall
  /\ frame.s.raced
  /\ frame.s.seenUnits = {IP, SI}
  /\ \E u \in frame.s.seenUnits, t \in frame.s.seenTol : t # TolOf(u)

====
